---- MODULE Spec2Model ----
(***************************************************************************)
(* Funding-rate arbitrage engine: the execution manager with its trade     *)
(* ledger (src/src/core/execution_manager.py, src/close_order.py) and the  *)
(* signal generation of the strategy (src/src/strategies/funding_arb.py).  *)
(*                                                                         *)
(* Number representation.  The program computes in floats; the model       *)
(* computes exactly:                                                       *)
(*   - a book price is an integer number of quote units;                   *)
(*   - a limit price is an integer number of 1/PxScale quote units, which  *)
(*     holds ref * (1 +- SLIPPAGE_BPS/10000) exactly;                      *)
(*   - a quantity is a fraction [num, den];                                *)
(*   - a text field of the ledger written with "%.Nf" is the integer       *)
(*     number of 10^-N units that the text shows.                          *)
(***************************************************************************)
EXTENDS Integers, Sequences, FiniteSets, TLC

VARIABLES
    fileExists,   \* trade_log.csv exists on disk
    ledger,       \* the lines of trade_log.csv, oldest first
    now,          \* wall clock, in seconds
    placed,       \* every order an exchange received, with its answer, in order of arrival
    call,         \* the latest call: its arguments, the books it read, and how many
                  \* lines and orders there were when it started
    ret,          \* the value that call returned
    slipIn,       \* input of the pricing primitive under test
    slipOut,      \* its outputs for BUY and SELL
    market_data,  \* what the adapters delivered to analyze: entries in iteration order
    signals,      \* [returned |-> the list analyze returned], once it has
    thresholds,   \* the projection minimums of config.py that a scan runs under
    pc,           \* where main_bot.py's loop stands: at its top ("run", or "retry"
                  \* after a backoff), in a sleep ("sleep", "backoff"), or "exit"
    cycle,        \* what the latest poll iteration read and did
    venue,        \* what a venue's API answered for one symbol
    produced      \* the FundingRate the adapter built from it

execVars == <<fileExists, ledger, now, placed, call, ret>>
slipVars == <<slipIn, slipOut>>
scanVars == <<market_data, signals>>
cfgVars == <<thresholds>>
pollVars == <<pc, cycle>>
feedVars == <<venue, produced>>
vars == <<fileExists, ledger, now, placed, call, ret, slipIn, slipOut, market_data, signals, thresholds, pc, cycle, venue, produced>>

None == [none |-> TRUE]

\* ---------------------------------------------------------------- bounds
MaxRows == 2
MaxRefPrice == 60

\* ------------------------------------------------------- program constants
SLIPPAGE_BPS == 15
DEFAULT_LEVERAGE == 2
BpsDenominator == 10000

\* ------------------------------------------------------------ input sets
Symbols == {"BTC", "ETH"}
\* The seconds the wall clock shows during a run.
Instants == {1, 2}
Notionals == {10}
ExPairs == {<<"Lighter", "Hyperliquid">>}
Sides == {"BUY", "SELL", "buy", "sell"}

\* What get_top_of_book of each adapter can answer (Hyperliquid answers its
\* mark price on both sides, or zeros; Lighter answers each side on its own).
Books(ex) ==
    IF ex = "Hyperliquid"
    THEN {[bid |-> 2, ask |-> 2], [bid |-> 0, ask |-> 0]}
    ELSE IF ex = "Lighter"
    THEN {[bid |-> 2, ask |-> 3], [bid |-> 2, ask |-> 0], [bid |-> 0, ask |-> 3]}
    ELSE {[bid |-> 2, ask |-> 3], [bid |-> 0, ask |-> 0]}

\* The two books one call reads: at most one of them is off.
BookPairs(ex_long, ex_short) ==
    {bp \in Books(ex_long) \X Books(ex_short) :
        bp[1] = [bid |-> 2, ask |-> 3] \/ bp[2] = [bid |-> 2, ask |-> 2]}

\* What get_open_positions of Asterdex and Hyperliquid can list.
ManualPositions ==
    {[exchange |-> "Hyperliquid", symbol |-> "BTC", side |-> "SHORT", quantity |-> [num |-> 5, den |-> 1]],
     [exchange |-> "Asterdex", symbol |-> "ETH", side |-> "LONG", quantity |-> [num |-> 0, den |-> 1]]}

\* What place_order of each adapter can answer.
PlaceResults(ex) ==
    IF ex = "Asterdex"
    THEN {[status |-> "mock_success", order_id |-> "mock_123"], [orderId |-> 1]}
    ELSE {[status |-> "ok"], [status |-> "error", error |-> "rejected"]}

\* ----------------------------------------------------------- arithmetic
Pow10(n) == IF n = 0 THEN 1 ELSE IF n = 1 THEN 10 ELSE IF n = 2 THEN 100
            ELSE IF n = 3 THEN 1000 ELSE IF n = 4 THEN 10000
            ELSE IF n = 5 THEN 100000 ELSE 1000000

Frac(n, d) == [num |-> n, den |-> d]

\* A limit price is held in 1/PxScale quote units, a six-decimal text in 1/Micro.
PxScale == BpsDenominator
Micro == Pow10(6)

\* The first `digits` decimals of r / den (0 <= r < den), as an integer, and
\* the remainder left after them.
RECURSIVE DecimalDigits(_, _, _)
DecimalDigits(r, den, digits) ==
    IF digits = 0 THEN <<0, r>>
    ELSE LET head == (r * 10) \div den
             rest == DecimalDigits((r * 10) % den, den, digits - 1)
         IN  <<head * Pow10(digits - 1) + rest[1], rest[2]>>

\* f"{x:.Nf}" of the non-negative fraction x: the number of 10^-N units
\* shown, rounded to nearest.
FormatFixed(x, digits) ==
    LET whole == x.num \div x.den
        dd    == DecimalDigits(x.num % x.den, x.den, digits)
        trunc == whole * Pow10(digits) + dd[1]
    IN  IF 2 * dd[2] >= x.den THEN trunc + 1 ELSE trunc

\* floor(a * b / c) and the remainder, without forming a * b.
RECURSIVE MulDiv(_, _, _)
MulDiv(a, b, c) ==
    IF b = 0 THEN <<0, 0>>
    ELSE LET half == MulDiv(a, b \div 2, c)
             add  == IF b % 2 = 1 THEN a ELSE 0
             r    == 2 * half[2] + (add % c)
         IN  <<2 * half[1] + (add \div c) + (r \div c), r % c>>

\* str.upper() on the side names in use.
Upper(s) == IF s = "buy" THEN "BUY" ELSE IF s = "sell" THEN "SELL" ELSE s

\* ------------------------------------------------------ ExecutionManager
\* A buffer that is added on both sides.
_price_with_slippage_alwaysAdds(ref_price, side) ==
    IF ref_price <= 0 THEN 0
    ELSE ref_price * BpsDenominator + ref_price * SLIPPAGE_BPS

\* ref_price in quote units, result in 1/PxScale quote units.
_price_with_slippage(ref_price, side) ==
    IF ref_price <= 0 THEN 0
    ELSE LET delta == ref_price * SLIPPAGE_BPS
         IN  IF Upper(side) = "BUY"
             THEN ref_price * BpsDenominator + delta
             ELSE ref_price * BpsDenominator - delta

Order(symbol, side, quantity, price, leverage) ==
    [symbol |-> symbol, side |-> side, quantity |-> quantity, price |-> price,
     type |-> "LIMIT", leverage |-> leverage, reduce_only |-> FALSE]

HeaderLine == [kind |-> "header"]

\* A result whose status is "error".
IsError(value) == "status" \in DOMAIN value /\ value.status = "error"

\* res.get("status", "unknown")
StatusOf(res) == IF "status" \in DOMAIN res THEN res.status ELSE "unknown"

\* px * qty in micro quote units (px in 1/PxScale units, qty a fraction).
LegNotionalMicro(px, qty) ==
    IF px = 0 \/ qty.num = 0 THEN 0
    ELSE MulDiv(px * (Micro \div PxScale), qty.num, qty.den)[1]

\* The data line _log_trade writes.
DataLine(ts, symbol, action, ex_long, px_long, qty_long, res_long, ex_short, px_short, qty_short, res_short) ==
    LET notional == LegNotionalMicro(px_long, qty_long) + LegNotionalMicro(px_short, qty_short)
        \* fee = notional * 0.001, shown with four decimals
        fee4     == Frac(notional, (1000 * Micro) \div Pow10(4))
    IN  [kind |-> "data",
         Timestamp |-> ts, Symbol |-> symbol, Action |-> action,
         Long_Exchange |-> ex_long,
         Long_Price |-> FormatFixed(Frac(px_long, PxScale), 6),
         Long_Qty |-> FormatFixed(qty_long, 6),
         Long_Status |-> StatusOf(res_long),
         Short_Exchange |-> ex_short,
         Short_Price |-> FormatFixed(Frac(px_short, PxScale), 6),
         Short_Qty |-> FormatFixed(qty_short, 6),
         Short_Status |-> StatusOf(res_short),
         Est_Total_Notional |-> FormatFixed(Frac(notional, Micro), 2),
         Est_Fee_Cost |-> FormatFixed(fee4, 0)]

\* A writer that puts the header in front of every data line.
_log_trade_alwaysHeader(exists, lines, line) ==
    Append(Append(lines, HeaderLine), line)

\* _log_trade: the lines of the file after the append.
_log_trade(exists, lines, line) ==
    IF exists THEN Append(lines, line)
    ELSE Append(Append(lines, HeaderLine), line)

\* dict(zip(header, line.split(','))).get('Symbol'); "" stands for a missing key.
RowSymbol(header, line) ==
    IF header.kind # "header" THEN ""
    ELSE IF line.kind = "data" THEN line.Symbol ELSE "Symbol"

RowAction(header, line) ==
    IF header.kind # "header" THEN ""
    ELSE IF line.kind = "data" THEN line.Action ELSE "Action"

\* A scan that passes over the symbol's lines that are not OPEN.
RECURSIVE ScanLastOpen_skipsClosed(_, _, _)
ScanLastOpen_skipsClosed(lines, i, symbol) ==
    IF i < 2 THEN None
    ELSE IF RowSymbol(lines[1], lines[i]) = symbol /\ RowAction(lines[1], lines[i]) = "OPEN"
         THEN lines[i]
         ELSE ScanLastOpen_skipsClosed(lines, i - 1, symbol)

\* get_last_open_trade: scan lines[1:] backwards from index i.
RECURSIVE ScanLastOpen(_, _, _)
ScanLastOpen(lines, i, symbol) ==
    IF i < 2 THEN None
    ELSE IF RowSymbol(lines[1], lines[i]) = symbol
         THEN IF RowAction(lines[1], lines[i]) = "OPEN" THEN lines[i] ELSE None
         ELSE ScanLastOpen(lines, i - 1, symbol)

get_last_open_trade(exists, lines, symbol) ==
    IF ~exists \/ lines = <<>> THEN None
    ELSE ScanLastOpen(lines, Len(lines), symbol)

\* _find_trade_start_time: timestamp (ms) of the latest OPEN line of the symbol, else 0.
RECURSIVE ScanStartTime(_, _, _)
ScanStartTime(lines, i, symbol) ==
    IF i < 2 THEN 0
    ELSE IF RowSymbol(lines[1], lines[i]) = symbol /\ RowAction(lines[1], lines[i]) = "OPEN"
         THEN lines[i].Timestamp * 1000
         ELSE ScanStartTime(lines, i - 1, symbol)

_find_trade_start_time(exists, lines, symbol) ==
    IF ~exists \/ lines = <<>> THEN 0
    ELSE ScanStartTime(lines, Len(lines), symbol)

\* The names bound at the top of execution_manager.py.  `time` is imported
\* inside _log_trade only, so it is not among them.
ModuleGlobals == {"Dict", "Order", "SLIPPAGE_BPS", "DEFAULT_LEVERAGE"}

\* close_spread's realized-funding block: what it prints.  fund_1 and fund_2
\* are the adapters' get_funding_history answers (micro USDT).
realized_funding(exists, lines, symbol, fund_1, fund_2) ==
    LET start_time == _find_trade_start_time(exists, lines, symbol)
    IN  IF start_time = 0
        THEN [printed |-> "Could not find OPEN time"]
        ELSE IF "time" \notin ModuleGlobals
        THEN [printed |-> "Error calculating realized funding"]
        ELSE [printed |-> "Funding Realized", net_funding |-> fund_1 + fund_2]

\* One call close_spread makes on an adapter or on the ledger file.
Made(fn, on) == [fn |-> fn, on |-> on]

\* One get_funding_history call with its window.
History(on, start_time, now_ms) == [fn |-> "get_funding_history", on |-> on, start_time |-> start_time, now_ms |-> now_ms]

\* The calls of the realized-funding block, in source order.  The window's end
\* is int(time.time() * 1000), which needs the name `time`; the long adapter
\* is asked twice (aster_fund, fund_1), then the short one.
realized_funding_calls(exists, lines, symbol, exchange_long, exchange_short, clock) ==
    LET start_time == _find_trade_start_time(exists, lines, symbol)
    IN  <<Made("_find_trade_start_time", "ledger")>>
        \o (IF start_time # 0 /\ "time" \in ModuleGlobals
            THEN <<History(exchange_long, start_time, clock * 1000),
                   History(exchange_long, start_time, clock * 1000),
                   History(exchange_short, start_time, clock * 1000)>>
            ELSE <<>>)

\* The realized-funding block ahead of the orders.
close_spread_calls_lookupFirst(exists, lines, symbol, exchange_long, exchange_short, passed, clock) ==
    <<Made("get_top_of_book", exchange_long), Made("get_top_of_book", exchange_short)>>
    \o (IF passed
        THEN realized_funding_calls(exists, lines, symbol, exchange_long, exchange_short, clock)
             \o <<Made("place_order", exchange_long), Made("place_order", exchange_short)>>
             \o <<Made("_log_trade", "ledger")>>
        ELSE <<>>)

\* The calls of one close_spread, in source order: both books, then (book
\* check passed) both orders, the realized-funding block and the CLOSE line.
close_spread_calls(exists, lines, symbol, exchange_long, exchange_short, passed, clock) ==
    <<Made("get_top_of_book", exchange_long), Made("get_top_of_book", exchange_short)>>
    \o (IF passed
        THEN <<Made("place_order", exchange_long), Made("place_order", exchange_short)>>
             \o realized_funding_calls(exists, lines, symbol, exchange_long, exchange_short, clock)
             \o <<Made("_log_trade", "ledger")>>
        ELSE <<>>)

InvalidBook == [status |-> "error", reason |-> "Invalid book prices"]

\* What a call leaves behind: the file, the orders the exchanges received and
\* the returned value.
Outcome(exists, lines, orders, value) ==
    [fileExists |-> exists, ledger |-> lines, placed |-> orders, ret |-> value]

Placed(exchange, order, result) ==
    [exchange |-> exchange, order |-> order, result |-> result]

\* An open_spread that gives up the short leg when the long leg is refused.
open_spread_orders_stopsOnError(symbol, notional, exchange_long, exchange_short, long_price, short_price, res_long, res_short) ==
    LET qty_long  == Frac(notional * PxScale, long_price)
        qty_short == Frac(notional * PxScale, short_price)
        first == Placed(exchange_long, Order(symbol, "BUY", qty_long, long_price, DEFAULT_LEVERAGE), res_long)
        second == Placed(exchange_short, Order(symbol, "SELL", qty_short, short_price, DEFAULT_LEVERAGE), res_short)
        line == DataLine(now, symbol, "OPEN",
                         exchange_long, long_price, qty_long, res_long,
                         exchange_short, short_price, qty_short, res_short)
    IN  IF IsError(res_long)
        THEN Outcome(TRUE, _log_trade(fileExists, ledger, line), Append(placed, first),
                     [long |-> res_long, short |-> res_short])
        ELSE Outcome(TRUE, _log_trade(fileExists, ledger, line), placed \o <<first, second>>,
                     [long |-> res_long, short |-> res_short])

\* An open_spread that writes its line only when neither leg was refused.
open_spread_orders_logsOnSuccess(symbol, notional, exchange_long, exchange_short, long_price, short_price, res_long, res_short) ==
    LET qty_long  == Frac(notional * PxScale, long_price)
        qty_short == Frac(notional * PxScale, short_price)
        first == Placed(exchange_long, Order(symbol, "BUY", qty_long, long_price, DEFAULT_LEVERAGE), res_long)
        second == Placed(exchange_short, Order(symbol, "SELL", qty_short, short_price, DEFAULT_LEVERAGE), res_short)
        line == DataLine(now, symbol, "OPEN",
                         exchange_long, long_price, qty_long, res_long,
                         exchange_short, short_price, qty_short, res_short)
    IN  IF IsError(res_long) \/ IsError(res_short)
        THEN Outcome(fileExists, ledger, placed \o <<first, second>>,
                     [long |-> res_long, short |-> res_short])
        ELSE Outcome(TRUE, _log_trade(fileExists, ledger, line), placed \o <<first, second>>,
                     [long |-> res_long, short |-> res_short])

\* open_spread once the book check has passed: quantities, both orders, the
\* OPEN line and the returned pair of results.
open_spread_orders(symbol, notional, exchange_long, exchange_short, long_price, short_price, res_long, res_short) ==
    LET qty_long  == Frac(notional * PxScale, long_price)
        qty_short == Frac(notional * PxScale, short_price)
        sent == placed
                \o <<Placed(exchange_long, Order(symbol, "BUY", qty_long, long_price, DEFAULT_LEVERAGE), res_long)>>
                \o <<Placed(exchange_short, Order(symbol, "SELL", qty_short, short_price, DEFAULT_LEVERAGE), res_short)>>
        line == DataLine(now, symbol, "OPEN",
                         exchange_long, long_price, qty_long, res_long,
                         exchange_short, short_price, qty_short, res_short)
    IN  Outcome(TRUE, _log_trade(fileExists, ledger, line), sent,
                [long |-> res_long, short |-> res_short])

\* An open_spread that looks at the prices only after the long order is out.
open_spread_lateCheck(symbol, notional, exchange_long, exchange_short, book_long, book_short, res_long, res_short) ==
    LET long_price  == _price_with_slippage(book_long.ask, "BUY")
        short_price == _price_with_slippage(book_short.bid, "SELL")
    IN  IF long_price <= 0 \/ short_price <= 0
        THEN Outcome(fileExists, ledger,
                     Append(placed, Placed(exchange_long,
                                           Order(symbol, "BUY", Frac(0, 1), long_price, DEFAULT_LEVERAGE),
                                           res_long)),
                     InvalidBook)
        ELSE open_spread_orders(symbol, notional, exchange_long, exchange_short,
                                long_price, short_price, res_long, res_short)

open_spread(symbol, notional, exchange_long, exchange_short, book_long, book_short, res_long, res_short) ==
    LET long_price  == _price_with_slippage(book_long.ask, "BUY")
        short_price == _price_with_slippage(book_short.bid, "SELL")
    IN  IF long_price <= 0 \/ short_price <= 0
        THEN Outcome(fileExists, ledger, placed, InvalidBook)
        ELSE open_spread_orders(symbol, notional, exchange_long, exchange_short,
                                long_price, short_price, res_long, res_short)

\* close_spread once the book check has passed.  Its realized-funding block
\* only reads the ledger and prints: `time` is not imported by the module, so
\* once an OPEN line is found the block ends in its own except clause before
\* any adapter is asked.
\* The block's exception escapes: the orders are out, no line is written.
close_spread_orders_fundingRaises(symbol, qty_long, qty_short, exchange_long, exchange_short, sell_price, buy_price, res_close_long, res_close_short) ==
    LET sent == placed
                \o <<Placed(exchange_long, Order(symbol, "SELL", qty_long, sell_price, DEFAULT_LEVERAGE), res_close_long)>>
                \o <<Placed(exchange_short, Order(symbol, "BUY", qty_short, buy_price, DEFAULT_LEVERAGE), res_close_short)>>
        line == DataLine(now, symbol, "CLOSE",
                         exchange_long, sell_price, qty_long, res_close_long,
                         exchange_short, buy_price, qty_short, res_close_short)
    IN  IF realized_funding(fileExists, ledger, symbol, 0, 0).printed = "Error calculating realized funding"
        THEN Outcome(fileExists, ledger, sent, None)
        ELSE Outcome(TRUE, _log_trade(fileExists, ledger, line), sent,
                     [close_long |-> res_close_long, close_short |-> res_close_short])

close_spread_orders(symbol, qty_long, qty_short, exchange_long, exchange_short, sell_price, buy_price, res_close_long, res_close_short) ==
    LET sent == placed
                \o <<Placed(exchange_long, Order(symbol, "SELL", qty_long, sell_price, DEFAULT_LEVERAGE), res_close_long)>>
                \o <<Placed(exchange_short, Order(symbol, "BUY", qty_short, buy_price, DEFAULT_LEVERAGE), res_close_short)>>
        line == DataLine(now, symbol, "CLOSE",
                         exchange_long, sell_price, qty_long, res_close_long,
                         exchange_short, buy_price, qty_short, res_close_short)
    IN  Outcome(TRUE, _log_trade(fileExists, ledger, line), sent,
                [close_long |-> res_close_long, close_short |-> res_close_short])

\* A book check that looks at both sides of both books.
close_spread_anySide(symbol, qty_long, qty_short, exchange_long, exchange_short, book_long, book_short, res_close_long, res_close_short) ==
    LET sell_price == _price_with_slippage(book_long.bid, "SELL")
        buy_price  == _price_with_slippage(book_short.ask, "BUY")
    IN  IF \/ book_long.bid <= 0 \/ book_long.ask <= 0
           \/ book_short.bid <= 0 \/ book_short.ask <= 0
        THEN Outcome(fileExists, ledger, placed, InvalidBook)
        ELSE close_spread_orders(symbol, qty_long, qty_short, exchange_long, exchange_short,
                                 sell_price, buy_price, res_close_long, res_close_short)

close_spread(symbol, qty_long, qty_short, exchange_long, exchange_short, book_long, book_short, res_close_long, res_close_short) ==
    LET sell_price == _price_with_slippage(book_long.bid, "SELL")
        buy_price  == _price_with_slippage(book_short.ask, "BUY")
    IN  IF sell_price <= 0 \/ buy_price <= 0
        THEN Outcome(fileExists, ledger, placed, InvalidBook)
        ELSE close_spread_orders(symbol, qty_long, qty_short, exchange_long, exchange_short,
                                 sell_price, buy_price, res_close_long, res_close_short)

\* close_order.py, one position of the loop: the order is sent whatever the
\* book price is, and one CLOSE_MANUAL line is written.
ManualAction(exchange) ==
    IF exchange = "Asterdex" THEN "CLOSE_MANUAL_Asterdex" ELSE "CLOSE_MANUAL_Hyperliquid"

\* The same steps from a given state of the file and of the exchanges, at the
\* given clock reading.
manual_close_from(state, clock, pos, book, res) ==
    IF pos.quantity.num <= 0 \/ pos.symbol = ""
    THEN Outcome(state.fileExists, state.ledger, state.placed, None)
    ELSE LET target_side == IF pos.side = "LONG" THEN "SELL" ELSE "BUY"
             book_price  == IF target_side = "SELL" THEN book.bid ELSE book.ask
             price       == _price_with_slippage(book_price, target_side)
             isLong      == pos.side = "LONG"
             isShort     == pos.side = "SHORT"
             zero        == Frac(0, 1)
             line == DataLine(clock, pos.symbol, ManualAction(pos.exchange),
                              IF isLong THEN pos.exchange ELSE "-",
                              IF isLong THEN price ELSE 0,
                              IF isLong THEN pos.quantity ELSE zero,
                              [pnl |-> 0],
                              IF isShort THEN pos.exchange ELSE "-",
                              IF isShort THEN price ELSE 0,
                              IF isShort THEN pos.quantity ELSE zero,
                              [pnl |-> 0])
         IN  Outcome(TRUE, _log_trade(state.fileExists, state.ledger, line),
                     Append(state.placed, Placed(pos.exchange,
                                                 Order(pos.symbol, target_side, pos.quantity, price, 1), res)),
                     None)

manual_close(pos, book, res) ==
    manual_close_from(Outcome(fileExists, ledger, placed, None), now, pos, book, res)

\* close_order.py 49-69 for one position: the OPEN line found for its symbol,
\* the leg of that line the position is taken for, and the start time (ms).
ManualLookup(state, pos) ==
    LET trade_open == get_last_open_trade(state.fileExists, state.ledger, pos.symbol)
        is_long_leg == trade_open # None /\ pos.exchange = trade_open.Long_Exchange /\ pos.side = "LONG"
        is_short_leg == trade_open # None /\ pos.exchange = trade_open.Short_Exchange /\ pos.side = "SHORT"
    IN  [symbol |-> pos.symbol, exchange |-> pos.exchange,
         trade_open |-> trade_open,
         open_price |-> IF is_long_leg THEN trade_open.Long_Price
                        ELSE IF is_short_leg THEN trade_open.Short_Price
                        ELSE FormatFixed(Frac(0, 1), 6),
         start_time_ms |-> IF trade_open # None THEN trade_open.Timestamp * 1000 ELSE 0]

\* close_order.py's loop over the listed positions from index i on: the state
\* it leaves and, for each position it processes, what it looked up.
RECURSIVE manual_run(_, _, _, _, _, _)
manual_run(state, clock, positions, books, results, i) ==
    IF i > Len(positions) THEN [state |-> state, lookups |-> <<>>]
    ELSE LET pos == positions[i]
             skipped == pos.quantity.num <= 0 \/ pos.symbol = ""
             rest == manual_run(manual_close_from(state, clock, pos, books[i], results[i]),
                                clock, positions, books, results, i + 1)
         IN  [state |-> rest.state,
              lookups |-> (IF skipped THEN <<>> ELSE <<ManualLookup(state, pos)>>) \o rest.lookups]

\* ---------------------------------------------------------------- actions
DataRows(lines) == Cardinality({i \in 1..Len(lines) : lines[i].kind = "data"})

\* The model stops appending at MaxRows data lines.
Room == DataRows(ledger) < MaxRows

Apply(out) ==
    /\ fileExists' = out.fileExists
    /\ ledger' = out.ledger
    /\ placed' = out.placed
    /\ ret' = out.ret

BookOk(book_long, book_short, open) ==
    IF open THEN book_long.ask > 0 /\ book_short.bid > 0
    ELSE book_long.bid > 0 /\ book_short.ask > 0

\* What get_open_positions answers to open_order.py: a raise, an empty list,
\* or a list with a position of the symbol.
OpenPositionAnswers(symbol) ==
    {[raises |-> TRUE, positions |-> <<>>],
     [raises |-> FALSE, positions |-> <<>>],
     [raises |-> FALSE, positions |-> <<[symbol |-> symbol, quantity |-> 1]>>]}

\* open_order.py _has_open_position: a failed get_open_positions counts as
\* no position.
_has_open_position(answer, symbol) ==
    IF answer.raises THEN FALSE
    ELSE \E i \in 1..Len(answer.positions) :
            answer.positions[i].symbol = symbol /\ answer.positions[i].quantity > 0

\* The pairs of answers (long exchange, short exchange) on which
\* open_order.py finds the symbol open on either exchange, or on neither.
GuardAnswers(symbol, skipping) ==
    {held \in OpenPositionAnswers(symbol) \X OpenPositionAnswers(symbol) :
        (_has_open_position(held[1], symbol) \/ _has_open_position(held[2], symbol)) = skipping}

\* open_order.py: a position of the symbol on either exchange makes the
\* script return; otherwise it calls open_spread.
OpenSpread ==
    \E symbol \in Symbols, notional \in Notionals, pair \in ExPairs :
     \/ /\ GuardAnswers(symbol, TRUE) # {}
        /\ UNCHANGED vars
     \/
      /\ GuardAnswers(symbol, FALSE) # {}
      /\ \E bp \in BookPairs(pair[1], pair[2]) :
       LET book_long == bp[1]
           book_short == bp[2]
       IN
        /\ BookOk(book_long, book_short, TRUE) => Room
        /\ \E res_long \in IF BookOk(book_long, book_short, TRUE)
                           THEN PlaceResults(pair[1]) ELSE {None},
              res_short \in IF BookOk(book_long, book_short, TRUE)
                            THEN PlaceResults(pair[2]) ELSE {None} :
             Apply(open_spread(symbol, notional, pair[1], pair[2],
                               book_long, book_short, res_long, res_short))
        /\ call' = [op |-> "open_spread", symbol |-> symbol, notional |-> notional,
                    exchange_long |-> pair[1], exchange_short |-> pair[2],
                    book_long |-> book_long, book_short |-> book_short,
                    lines |-> Len(ledger), orders |-> Len(placed)]
        /\ UNCHANGED <<now, slipVars, scanVars, cfgVars, pollVars, feedVars>>

\* get_funding_history answers, in micro USDT.
FundingAnswers == {-250000, 400000}

\* main_bot.py calls close_spread for a symbol whose last ledger line is OPEN,
\* with the exchanges and the quantities of that line.
CloseSpread ==
    \E symbol \in Symbols :
      LET trade == get_last_open_trade(fileExists, ledger, symbol)
      IN  /\ trade # None
          /\ \E pair \in ExPairs :
               /\ pair[1] = trade.Long_Exchange
               /\ pair[2] = trade.Short_Exchange
               /\ \E bp \in BookPairs(pair[1], pair[2]) :
                   LET book_long == bp[1]
                       book_short == bp[2]
                   IN
                    /\ BookOk(book_long, book_short, FALSE) => Room
                    /\ \E res_long \in IF BookOk(book_long, book_short, FALSE)
                                       THEN PlaceResults(pair[1]) ELSE {None},
                          res_short \in IF BookOk(book_long, book_short, FALSE)
                                        THEN PlaceResults(pair[2]) ELSE {None} :
                         Apply(close_spread(symbol, Frac(trade.Long_Qty, Micro), Frac(trade.Short_Qty, Micro),
                                            pair[1], pair[2], book_long, book_short, res_long, res_short))
                    /\ \E fund_1 \in FundingAnswers, fund_2 \in FundingAnswers :
                         call' = [op |-> "close_spread", symbol |-> symbol,
                                funding |-> IF BookOk(book_long, book_short, FALSE)
                                            THEN realized_funding(fileExists, ledger, symbol, fund_1, fund_2)
                                            ELSE None,
                                calls |-> close_spread_calls(fileExists, ledger, symbol, pair[1], pair[2],
                                                             BookOk(book_long, book_short, FALSE), now),
                                qty_long |-> Frac(trade.Long_Qty, Micro),
                                qty_short |-> Frac(trade.Short_Qty, Micro),
                                exchange_long |-> pair[1], exchange_short |-> pair[2],
                                book_long |-> book_long, book_short |-> book_short,
                                lines |-> Len(ledger), orders |-> Len(placed)]
          /\ UNCHANGED <<now, slipVars, scanVars, cfgVars, pollVars, feedVars>>

\* close_order.py handles one listed position.
ManualClose ==
    \E pos \in ManualPositions :
      \E book \in IF pos.quantity.num > 0 THEN Books(pos.exchange) ELSE {None} :
        /\ pos.quantity.num > 0 => Room
        /\ \E res \in IF pos.quantity.num > 0 THEN PlaceResults(pos.exchange) ELSE {None} :
             Apply(manual_close(pos, book, res))
        /\ call' = [op |-> "manual_close", pos |-> pos, book |-> book,
                    lines |-> Len(ledger), orders |-> Len(placed)]
        /\ UNCHANGED <<now, slipVars, scanVars, cfgVars, pollVars, feedVars>>

\* The wall clock advances.
Tick ==
    /\ now + 1 \in Instants
    /\ now' = now + 1
    /\ UNCHANGED <<fileExists, ledger, placed, call, ret, slipVars, scanVars, cfgVars, pollVars, feedVars>>

ExecInit ==
    /\ fileExists = FALSE
    /\ ledger = <<>>
    /\ now = 1
    /\ placed = <<>>
    /\ call = [op |-> "none"]
    /\ ret = None

Init ==
    /\ ExecInit
    /\ slipIn = None
    /\ slipOut = None
    /\ market_data = None
    /\ signals = None
    /\ thresholds = None
    /\ pc = "off"
    /\ cycle = None
    /\ venue = None
    /\ produced = None

Next == OpenSpread \/ CloseSpread \/ ManualClose \/ Tick

Spec == Init /\ [][Next]_vars

\* ------------------------------------------- the pricing primitive alone
SlipInit ==
    /\ ExecInit
    /\ slipIn \in [ref_price : -2..MaxRefPrice]
    /\ slipOut = None
    /\ market_data = None
    /\ signals = None
    /\ thresholds = None
    /\ pc = "off"
    /\ cycle = None
    /\ venue = None
    /\ produced = None

PriceWithSlippage ==
    /\ slipOut = None
    /\ slipOut' = [s \in Sides |-> _price_with_slippage(slipIn.ref_price, s)]
    /\ UNCHANGED <<execVars, slipIn, scanVars, cfgVars, pollVars, feedVars>>

SlipNext == PriceWithSlippage

SpecSlip == SlipInit /\ [][SlipNext]_vars

\* =============================================== FundingArbitrageStrategy
\* Rates, fees and returns are integers in units of 1e-8 (RateUnit per 1).
\* A percent value of config.py is held in 1e-6 percent, which is the same
\* unit once the code has divided it by 100.
RateUnit == Pow10(4) * Pow10(4)

ESTIMATED_FEE_PER_ROTATION == 200000
MIN_SPREAD_PER_ROUND == 200000
MIN_24H_FUNDING_PCT == -2000000
MIN_7D_FUNDING_PCT == 1000000
MIN_30D_FUNDING_PCT == 2000000
MIN_PRICE_SPREAD_PCT == 10000
\* A horizon of a single round.
MAX_BREAK_EVEN_ROUNDS_oneRound == Pow10(0)
MAX_BREAK_EVEN_ROUNDS == 100
MIN_VOLUME_ASTER_USDT == 1000
MIN_VOLUME_HL_USDT == 500000
MIN_VOLUME_LIGHTER_USDT == 250000
HYPERLIQUID_TAKER_FEE == 45000
ENABLE_VOLUME_FILTER == TRUE
ENABLE_DELIST_FILTER == TRUE
ENABLE_PRICE_SPREAD_FILTER == TRUE
WATCHLIST == {"RESOLV"}
SCAN_EXCHANGES == <<"hyperliquid", "lighter">>

EXCHANGE_KEY_TO_NAME(key) ==
    IF key = "asterdex" THEN "Asterdex"
    ELSE IF key = "hyperliquid" THEN "Hyperliquid"
    ELSE IF key = "lighter" THEN "Lighter"
    ELSE ""

MIN_VOLUME_BY_EXCHANGE(name) ==
    IF name = "Asterdex" THEN MIN_VOLUME_ASTER_USDT
    ELSE IF name = "Hyperliquid" THEN MIN_VOLUME_HL_USDT
    ELSE MIN_VOLUME_LIGHTER_USDT

_resolve_exchange_pair ==
    IF Len(SCAN_EXCHANGES) # 2 \/ SCAN_EXCHANGES[1] = SCAN_EXCHANGES[2]
    THEN <<"Asterdex", "Hyperliquid">>
    ELSE LET ex_a == EXCHANGE_KEY_TO_NAME(SCAN_EXCHANGES[1])
             ex_b == EXCHANGE_KEY_TO_NAME(SCAN_EXCHANGES[2])
         IN  IF ex_a = "" \/ ex_b = "" \/ ex_a = ex_b
             THEN <<"Asterdex", "Hyperliquid">>
             ELSE <<ex_a, ex_b>>

ex_a_name == _resolve_exchange_pair[1]
ex_b_name == _resolve_exchange_pair[2]

\* name.upper().replace(" ", "")
_direction_key(name) ==
    IF name = "Asterdex" THEN "ASTERDEX"
    ELSE IF name = "Hyperliquid" THEN "HYPERLIQUID"
    ELSE IF name = "Lighter" THEN "LIGHTER"
    ELSE name

\* f"LONG_{long}_SHORT_{short}", kept as its four parts.
DirectionLabel(exchange_long, exchange_short) ==
    <<"LONG", _direction_key(exchange_long), "SHORT", _direction_key(exchange_short)>>

\* The fields of a FundingRate that analyze reads for its decisions.
FundingRate(rate, funding_interval_hours, mark_price, volume_24h, taker_fee, is_active) ==
    [rate |-> rate, funding_interval_hours |-> funding_interval_hours,
     mark_price |-> mark_price, volume_24h |-> volume_24h,
     taker_fee |-> taker_fee, is_active |-> is_active]

Abs(x) == IF x < 0 THEN -x ELSE x
Max(a, b) == IF a >= b THEN a ELSE b

\* getattr(ex, "funding_interval_hours", 8) or 8
IntervalOf(ex) == IF ex.funding_interval_hours = 0 THEN 8 ELSE ex.funding_interval_hours

\* A rate taken as quoted, whatever its interval.
_rate_per_round_asQuoted(rate, interval, round_hours) == rate

\* rate * (round_hours / interval); the intervals in use divide round_hours.
_rate_per_round(rate, interval, round_hours) ==
    IF interval <= 0 THEN rate ELSE rate * (round_hours \div interval)

FeePerRotation(ex_a, ex_b) ==
    IF ex_a.taker_fee # 0 \/ ex_b.taker_fee # 0
    THEN (ex_a.taker_fee + ex_b.taker_fee) * 2
    ELSE ESTIMATED_FEE_PER_ROTATION

\* (SLIPPAGE_BPS / 10000) * 4
slippage_cost == SLIPPAGE_BPS * 4 * (RateUnit \div BpsDenominator)

\* The projection over `hours` on equity, as a fraction over 2:
\* (diff_round * leverage / 2 / round_hours) * hours - cost * leverage / 2.
\* round_hours divides the three horizons for the intervals in use.
Projection(diff_round, round_hours, cost, hours) ==
    LET leverage == IF DEFAULT_LEVERAGE > 0 THEN DEFAULT_LEVERAGE ELSE 1
    IN  Frac(leverage * (diff_round * (hours \div round_hours) - cost), 2)

\* fund < MIN / 100
BelowMinimum(fund, minimum) == fund.num < minimum * fund.den

\* Rounds counted by rounding the quotient down.
BreakEvenRounds_floor(diff_round, fee_per_rotation) ==
    IF diff_round > 0
    THEN (fee_per_rotation + slippage_cost) \div diff_round
    ELSE 999

\* math.ceil((fee_per_rotation + slippage_cost) / diff_round), or the 999 of
\* the else branch.
BreakEvenRounds(diff_round, fee_per_rotation) ==
    IF diff_round > 0
    THEN (fee_per_rotation + slippage_cost + diff_round - 1) \div diff_round
    ELSE 999

\* A direction that does not look at the rates.
Direction_fixed(rate_a_round, rate_b_round) == <<ex_a_name, ex_b_name>>

\* The exchange that is long, then the one that is short.
Direction(rate_a_round, rate_b_round) ==
    IF rate_b_round > rate_a_round
    THEN <<ex_a_name, ex_b_name>>
    ELSE <<ex_b_name, ex_a_name>>

\* price_edge_pct, exact: +-price_diff / mid_price with mid_price = (a + b) / 2.
PriceEdge(price_a, price_b, exchange_long) ==
    IF price_a > 0 /\ price_b > 0
    THEN IF exchange_long = ex_a_name
         THEN Frac(2 * (price_b - price_a), price_a + price_b)
         ELSE Frac(2 * (price_a - price_b), price_a + price_b)
    ELSE Frac(0, 1)

\* A watchlist that nothing is on.
is_watched_never(symbol) == FALSE

\* is_watched = symbol in WATCHLIST
is_watched(symbol) == symbol \in WATCHLIST

Skip(symbol, reason) == [kind |-> "skip", symbol |-> symbol, reason |-> reason]

\* The three projection minimums of SCAN_THRESHOLDS, as config.py ships them.
SCAN_THRESHOLDS ==
    [min_24h_funding_pct |-> MIN_24H_FUNDING_PCT,
     min_7d_funding_pct |-> MIN_7D_FUNDING_PCT,
     min_30d_funding_pct |-> MIN_30D_FUNDING_PCT]

\* potential_revenue - total_cost over the break-even horizon, kept by one
\* unit from being zero.
NetOverHorizon_zeroPasses(diff_round, total_cost) ==
    diff_round * MAX_BREAK_EVEN_ROUNDS - total_cost + 1

\* net_over_horizon = diff_round * MAX_BREAK_EVEN_ROUNDS - total_cost
NetOverHorizon(diff_round, total_cost) ==
    diff_round * MAX_BREAK_EVEN_ROUNDS - total_cost

\* One pass of the loop of analyze under the given projection minimums: the
\* signal for the symbol, or the filter that dropped it.
AnalyzeSymbolUnder(minimums, symbol, rates) ==
    IF Cardinality(DOMAIN rates) < 2
    THEN Skip(symbol, "missing second exchange")
    ELSE IF ex_a_name \notin DOMAIN rates \/ ex_b_name \notin DOMAIN rates
    THEN Skip(symbol, "missing rate")
    ELSE
    LET ex_a == rates[ex_a_name]
        ex_b == rates[ex_b_name]
        watched == is_watched(symbol)
        low_a == ex_a.volume_24h < MIN_VOLUME_BY_EXCHANGE(ex_a_name)
        low_b == ex_b.volume_24h < MIN_VOLUME_BY_EXCHANGE(ex_b_name)
        interval_a == IntervalOf(ex_a)
        interval_b == IntervalOf(ex_b)
        round_hours == Max(interval_a, interval_b)
        rate_a_round == _rate_per_round(ex_a.rate, interval_a, round_hours)
        rate_b_round == _rate_per_round(ex_b.rate, interval_b, round_hours)
        diff_round == Abs(rate_a_round - rate_b_round)
        price_a == ex_a.mark_price
        price_b == ex_b.mark_price
        mid_ok == price_a > 0 /\ price_b > 0
        fee_per_rotation == FeePerRotation(ex_a, ex_b)
        net_per_round == diff_round - fee_per_rotation - slippage_cost
        total_cost == fee_per_rotation + slippage_cost
        fund_24h_pct == Projection(diff_round, round_hours, total_cost, 24)
        fund_7d_pct == Projection(diff_round, round_hours, total_cost, 24 * 7)
        fund_30d_pct == Projection(diff_round, round_hours, total_cost, 24 * 30)
        net_over_horizon == NetOverHorizon(diff_round, total_cost)
        legs == Direction(rate_a_round, rate_b_round)
        exchange_long == legs[1]
        exchange_short == legs[2]
        price_edge_pct == PriceEdge(price_a, price_b, exchange_long)
    IN  IF ENABLE_DELIST_FILTER /\ ~watched /\ (~ex_a.is_active \/ ~ex_b.is_active)
        THEN Skip(symbol, "inactive")
        ELSE IF ENABLE_VOLUME_FILTER /\ ~watched /\ (low_a \/ low_b)
        THEN Skip(symbol, "low volume")
        ELSE IF diff_round < MIN_SPREAD_PER_ROUND /\ ~watched
        THEN Skip(symbol, "spread too small")
        ELSE IF net_over_horizon <= 0 /\ ~watched
        THEN Skip(symbol, "net<=0")
        ELSE IF minimums.min_24h_funding_pct > 0 /\ BelowMinimum(fund_24h_pct, minimums.min_24h_funding_pct) /\ ~watched
        THEN Skip(symbol, "24h funding too low")
        ELSE IF minimums.min_7d_funding_pct > 0 /\ BelowMinimum(fund_7d_pct, minimums.min_7d_funding_pct) /\ ~watched
        THEN Skip(symbol, "7d funding too low")
        ELSE IF minimums.min_30d_funding_pct > 0 /\ BelowMinimum(fund_30d_pct, minimums.min_30d_funding_pct) /\ ~watched
        THEN Skip(symbol, "30d funding too low")
        ELSE IF ENABLE_PRICE_SPREAD_FILTER /\ ~watched /\ ~mid_ok
        THEN Skip(symbol, "price spread check unavailable")
        ELSE IF /\ ENABLE_PRICE_SPREAD_FILTER /\ ~watched
                /\ price_edge_pct.num * RateUnit < MIN_PRICE_SPREAD_PCT * price_edge_pct.den
        THEN Skip(symbol, "price edge too small")
        ELSE [kind |-> "signal",
              symbol |-> symbol,
              direction |-> DirectionLabel(exchange_long, exchange_short),
              exchange_long |-> exchange_long,
              exchange_short |-> exchange_short,
              spread |-> diff_round,
              spread_net |-> net_per_round,
              round_return_net |-> net_per_round,
              projected_monthly_return |-> fund_30d_pct,
              is_watchlist |-> watched,
              warning |-> IF watched /\ fund_30d_pct.num < 0 THEN "WARNING" ELSE "",
              break_even_rounds |-> BreakEvenRounds(diff_round, fee_per_rotation),
              exchange_a |-> ex_a_name, exchange_b |-> ex_b_name,
              rate_a |-> ex_a.rate, rate_b |-> ex_b.rate,
              price_a |-> price_a, price_b |-> price_b,
              price_spread_pct |-> price_edge_pct,
              price_diff |-> price_b - price_a]

\* One pass of the loop with the minimums config.py ships.
AnalyzeSymbol(symbol, rates) == AnalyzeSymbolUnder(SCAN_THRESHOLDS, symbol, rates)

IsSignal(r) == r.kind = "signal"

\* What the loop decides for each entry, in iteration order.
Decisions(market) == [i \in 1..Len(market) |-> AnalyzeSymbol(market[i].symbol, market[i].rates)]

\* An insertion that puts a signal ahead of the signals with an equal key.
InsertSignal_aheadOfEqual(sorted, s) ==
    LET ahead == Cardinality({i \in 1..Len(sorted) :
                     sorted[i].projected_monthly_return.num > s.projected_monthly_return.num})
    IN  SubSeq(sorted, 1, ahead) \o <<s>> \o SubSeq(sorted, ahead + 1, Len(sorted))

\* list.sort(key=projected_monthly_return, reverse=True): stable, equal keys
\* keep their order.
InsertSignal(sorted, s) ==
    LET ahead == Cardinality({i \in 1..Len(sorted) :
                     sorted[i].projected_monthly_return.num >= s.projected_monthly_return.num})
    IN  SubSeq(sorted, 1, ahead) \o <<s>> \o SubSeq(sorted, ahead + 1, Len(sorted))

RECURSIVE SortSignals(_)
SortSignals(found) ==
    IF found = <<>> THEN <<>>
    ELSE InsertSignal(SortSignals(SubSeq(found, 1, Len(found) - 1)), found[Len(found)])

analyze(market) == SortSignals(SelectSeq(Decisions(market), IsSignal))

\* analyze when config.py holds the given projection minimums.
DecisionsUnder(minimums, market) == [i \in 1..Len(market) |-> AnalyzeSymbolUnder(minimums, market[i].symbol, market[i].rates)]
analyzeUnder(minimums, market) == SortSignals(SelectSeq(DecisionsUnder(minimums, market), IsSignal))

\* ------------------------------------------------- inputs of the strategy
ScanRates == {0, 801, 40000, 80000}
ScanIntervals == {<<1, 8>>, <<8, 8>>, <<8, 1>>, <<0, 8>>, <<1, 1>>}
\* The last pair carries a fee reported by the venue (lighter.py 252) at which
\* a spread of 0.0032 per round breaks even in exactly 100 rounds.
ScanFees == {<<0, 0>>, <<HYPERLIQUID_TAKER_FEE, 0>>, <<0, HYPERLIQUID_TAKER_FEE>>,
             <<HYPERLIQUID_TAKER_FEE, HYPERLIQUID_TAKER_FEE>>,
             <<HYPERLIQUID_TAKER_FEE, 15655000>>}
\* Mark prices, volumes and activity flags of the two records.
ScanQualities ==
    {[price |-> <<1001, 1000>>, volume |-> <<600000, 600000>>, active |-> <<TRUE, TRUE>>],
     [price |-> <<1000, 1001>>, volume |-> <<600000, 600000>>, active |-> <<TRUE, TRUE>>],
     [price |-> <<1000, 1000>>, volume |-> <<600000, 600000>>, active |-> <<TRUE, TRUE>>],
     [price |-> <<0, 1000>>, volume |-> <<600000, 600000>>, active |-> <<TRUE, TRUE>>],
     [price |-> <<1001, 1000>>, volume |-> <<0, 600000>>, active |-> <<TRUE, TRUE>>],
     [price |-> <<1000, 1001>>, volume |-> <<600000, 0>>, active |-> <<TRUE, TRUE>>],
     [price |-> <<1001, 1000>>, volume |-> <<600000, 600000>>, active |-> <<TRUE, FALSE>>],
     [price |-> <<0, 1000>>, volume |-> <<0, 0>>, active |-> <<FALSE, FALSE>>]}
ScanSymbols == {"RESOLV", "BTC"}

Entry(symbol, rates) == [symbol |-> symbol, rates |-> rates]

\* Entries with a record from both configured exchanges.
FullEntries ==
    {Entry(symbol,
           (ex_a_name :> FundingRate(ra, iv[1], q.price[1], q.volume[1], fee[1], q.active[1]))
           @@ (ex_b_name :> FundingRate(rb, iv[2], q.price[2], q.volume[2], fee[2], q.active[2]))) :
        symbol \in ScanSymbols, ra \in ScanRates, rb \in ScanRates,
        iv \in ScanIntervals, fee \in ScanFees, q \in ScanQualities}

\* Entries that lack a configured exchange.
PartialEntries ==
    {Entry(symbol, rates) :
        symbol \in ScanSymbols,
        rates \in {(ex_a_name :> FundingRate(80000, 1, 1000, 600000, HYPERLIQUID_TAKER_FEE, TRUE)),
                   (ex_a_name :> FundingRate(80000, 1, 1000, 600000, HYPERLIQUID_TAKER_FEE, TRUE))
                   @@ ("Asterdex" :> FundingRate(0, 8, 1001, 600000, 0, TRUE))}}

\* Entries that are combined into markets of two symbols.
PairPool ==
    {e \in FullEntries :
        /\ e.rates[ex_a_name].rate \in {0, 80000} /\ e.rates[ex_b_name].rate \in {0, 40000}
        /\ e.rates[ex_a_name].funding_interval_hours = 1
        /\ e.rates[ex_b_name].funding_interval_hours = 8
        /\ e.rates[ex_a_name].taker_fee = e.rates[ex_b_name].taker_fee
        /\ e.rates[ex_a_name].mark_price = 1001 /\ e.rates[ex_a_name].volume_24h > 0
        /\ e.rates[ex_b_name].is_active}

Markets ==
    {<<e>> : e \in FullEntries \cup PartialEntries}
    \cup {<<pair[1], pair[2]>> : pair \in {pp \in PairPool \X PairPool : pp[1].symbol # pp[2].symbol}}

\* ------------------------------------------------------ the scan alone
ScanInit ==
    /\ ExecInit
    /\ slipIn = None
    /\ slipOut = None
    /\ market_data \in Markets
    /\ signals = None
    /\ thresholds = None
    /\ pc = "off"
    /\ cycle = None
    /\ venue = None
    /\ produced = None

\* main_bot.py hands the gathered market data to strategy.analyze.
Analyze ==
    /\ signals = None
    /\ signals' = [returned |-> analyze(market_data)]
    /\ UNCHANGED <<execVars, slipVars, market_data, cfgVars, pollVars, feedVars>>

ScanNext == Analyze

SpecScan == ScanInit /\ [][ScanNext]_vars

\* --------------------------------- the scan under other projection minimums
\* Values of min_24h / min_7d / min_30d_funding_pct, in 1e-6 percent: the
\* shipped one, zero, and a positive or negative one that the inputs straddle.
Min24hChoices == {MIN_24H_FUNDING_PCT, -50000, 0, 500000}
Min7dChoices == {MIN_7D_FUNDING_PCT, 0}
Min30dChoices == {MIN_30D_FUNDING_PCT, 0}
ThresholdChoices ==
    [min_24h_funding_pct : Min24hChoices,
     min_7d_funding_pct : Min7dChoices,
     min_30d_funding_pct : Min30dChoices]

ThresholdMarkets == {<<e>> : e \in FullEntries}

ThresholdInit ==
    /\ ExecInit
    /\ slipIn = None
    /\ slipOut = None
    /\ market_data \in ThresholdMarkets
    /\ signals = None
    /\ thresholds \in ThresholdChoices
    /\ pc = "off"
    /\ cycle = None
    /\ venue = None
    /\ produced = None

AnalyzeUnder ==
    /\ signals = None
    /\ signals' = [returned |-> analyzeUnder(thresholds, market_data)]
    /\ UNCHANGED <<execVars, slipVars, market_data, cfgVars, pollVars, feedVars>>

ThresholdNext == AnalyzeUnder

SpecThresholds == ThresholdInit /\ [][ThresholdNext]_vars

\* ================================================= get_all_funding_rates
\* A venue's answer for one symbol holds the funding rate it charges per
\* period of period_hours (in units of 1e-8), its mark price and volume, and
\* for Lighter the taker fee of the market details, if any.
ASTERDEX_TAKER_FEE == 50000
LIGHTER_TAKER_FEE == 0

\* HyperliquidAdapter.get_all_funding_rates, one asset.
HyperliquidRate(ctx) ==
    FundingRate(ctx.funding * 8, 1, ctx.mark, ctx.volume, HYPERLIQUID_TAKER_FEE, TRUE)

\* LighterAdapter.get_all_funding_rates, one item; FundingRate's default
\* funding_interval_hours is 8.
LighterRate(item) ==
    FundingRate(item.funding * 8, 8, item.mark, item.volume,
                IF item.taker_fee = None THEN LIGHTER_TAKER_FEE ELSE item.taker_fee.value,
                item.active)

\* AsterdexAdapter.get_all_funding_rates, one item; interval_hours is what
\* _get_funding_interval_hours answers (1, 2, 4 or 8).
AsterdexRate(item) ==
    LET interval_hours == item.period_hours
        norm_factor == IF interval_hours > 0 THEN 8 \div interval_hours ELSE 1
    IN  FundingRate(item.funding * norm_factor, 8, item.mark, item.volume,
                    ASTERDEX_TAKER_FEE, item.active)

AdapterRate(answer) ==
    IF answer.adapter = "Hyperliquid" THEN HyperliquidRate(answer)
    ELSE IF answer.adapter = "Lighter" THEN LighterRate(answer)
    ELSE AsterdexRate(answer)

\* The venue rates tried: -0.000002 to 0.00002 per period in steps of 1e-6.
MaxRawRate == 20
RawRates == {r * 100 : r \in -2..MaxRawRate}

\* Hyperliquid and Lighter charge funding hourly, Asterdex every 1, 2, 4 or 8
\* hours depending on the symbol.
VenuePeriods(adapter) == IF adapter = "Asterdex" THEN {1, 2, 4, 8} ELSE {1}

VenueAnswers ==
    {[adapter |-> adapter, funding |-> funding, period_hours |-> period_hours,
      mark |-> 1000, volume |-> 600000, taker_fee |-> taker_fee, active |-> TRUE] :
        adapter \in {"Hyperliquid", "Lighter", "Asterdex"}, funding \in RawRates,
        period_hours \in {1, 2, 4, 8}, taker_fee \in {None, [value |-> 20000]}}

FeedInit ==
    /\ ExecInit
    /\ slipIn = None
    /\ slipOut = None
    /\ market_data = None
    /\ signals = None
    /\ thresholds = None
    /\ pc = "off"
    /\ cycle = None
    /\ venue \in {a \in VenueAnswers :
                     /\ a.period_hours \in VenuePeriods(a.adapter)
                     /\ a.adapter # "Lighter" => a.taker_fee = None}
    /\ produced = None

\* The adapter turns the venue's answer into a FundingRate.
BuildRate ==
    /\ produced = None
    /\ produced' = AdapterRate(venue)
    /\ UNCHANGED <<execVars, slipVars, scanVars, cfgVars, pollVars, venue>>

FeedNext == BuildRate

SpecFeed == FeedInit /\ [][FeedNext]_vars

\* ======================================================= main_bot.py's loop
\* Amounts of the live PnL block are exact fractions with a positive
\* denominator, kept in lowest terms.
RECURSIVE GCD(_, _)
GCD(a, b) == IF b = 0 THEN a ELSE GCD(b, a % b)

Q(n, d) ==
    LET g == GCD(Abs(n), d)
    IN  IF n = 0 THEN Frac(0, 1) ELSE Frac(n \div g, d \div g)

QInt(n) == Frac(n, 1)
QAdd(x, y) == Q(x.num * y.den + y.num * x.den, x.den * y.den)
QSub(x, y) == Q(x.num * y.den - y.num * x.den, x.den * y.den)
QMul(x, y) == Q(x.num * y.num, x.den * y.den)
QLeq(x, y) == x.num * y.den <= y.num * x.den
QDiv(x, y) == Q(x.num * y.den, x.den * y.num)
QMin(x, y) == IF QLeq(x, y) THEN x ELSE y

ENABLE_TRADING == TRUE
AUTO_CLOSE_RET_PCT == 20
AUTO_CLOSE_SIDE_DD_PCT == 10
\* 1.6 USDC
REBALANCE_FIXED_COST_USDC == Frac(8, 5)

\* exchanges = [EXCHANGE_REGISTRY[key]() for key in scan_keys], by get_name().
PollExchanges ==
    IF Len(SCAN_EXCHANGES) # 2 \/ SCAN_EXCHANGES[1] = SCAN_EXCHANGES[2]
       \/ EXCHANGE_KEY_TO_NAME(SCAN_EXCHANGES[1]) = "" \/ EXCHANGE_KEY_TO_NAME(SCAN_EXCHANGES[2]) = ""
    THEN <<"Hyperliquid", "Asterdex">>
    ELSE <<EXCHANGE_KEY_TO_NAME(SCAN_EXCHANGES[1]), EXCHANGE_KEY_TO_NAME(SCAN_EXCHANGES[2])>>

\* exchange_by_name
LoadedExchanges == {PollExchanges[1], PollExchanges[2]}

InSeq(x, seq) == \E i \in 1..Len(seq) : seq[i] = x

\* A gathering that files a record of every loaded exchange under each
\* symbol, answered or not.
GatherMarket_everyExchange(listing, quotes) ==
    LET first == PollExchanges[1]
        second == PollExchanges[2]
        fresh(symbol) == ~InSeq(symbol, listing[first])
        order == listing[first] \o SelectSeq(listing[second], fresh)
    IN  [k \in 1..Len(order) |->
            Entry(order[k], [name \in LoadedExchanges |-> quotes[name][order[k]]])]

\* market_data.setdefault(symbol, {})[name] = rate_obj over the exchanges in
\* order: a dict keeps its keys in first-insertion order.  listing[name] is
\* the sequence of symbols get_all_funding_rates of that adapter answered
\* (empty when its fetch failed), quotes[name][symbol] the FundingRate.
GatherMarket(listing, quotes) ==
    LET first == PollExchanges[1]
        second == PollExchanges[2]
        fresh(symbol) == ~InSeq(symbol, listing[first])
        order == listing[first] \o SelectSeq(listing[second], fresh)
    IN  [k \in 1..Len(order) |->
            Entry(order[k],
                  [name \in {n \in LoadedExchanges : InSeq(order[k], listing[n])} |->
                      quotes[name][order[k]]])]

\* market_data.get(symbol, {})
SymData(market, symbol) ==
    IF \E k \in 1..Len(market) : market[k].symbol = symbol
    THEN (market[CHOOSE k \in 1..Len(market) : market[k].symbol = symbol]).rates
    ELSE <<>>

\* ------------------------------------------ the live PnL block of one symbol
\* float(text or 0) of a ledger field written with `digits` decimals.
ParseFixed(text, digits) == Q(text, Pow10(digits))

\* `pos.get(key) or fallback` on a reported position.
PosOr(pos, key, fallback) ==
    IF pos # None /\ pos[key] # 0 THEN QInt(pos[key]) ELSE fallback

\* (curr - entry) / entry for the long leg, (entry - curr) / entry for the
\* short leg, times 100.
LegReturnPct(entry, curr, long) ==
    QMul(QDiv(IF long THEN QSub(curr, entry) ELSE QSub(entry, curr), entry), QInt(100))

\* main_bot.py 97-354 for one symbol of the watchlist whose last ledger line
\* is OPEN: what the block computes from the ledger line, the market data of
\* this cycle and the answers of the two adapters.
LivePnl(trade, sym_data, live) ==
    LET ex_long_name == trade.Long_Exchange
        ex_short_name == trade.Short_Exchange
        has_long == ex_long_name \in DOMAIN sym_data
        has_short == ex_short_name \in DOMAIN sym_data
        both == has_long /\ has_short
        net_funding == QAdd(QInt(live.fund[1]), QInt(live.fund[2]))
        open_notional == ParseFixed(trade.Est_Total_Notional, 2)
        fee_rate_sum == (IF has_long THEN sym_data[ex_long_name].taker_fee ELSE 0)
                        + (IF has_short THEN sym_data[ex_short_name].taker_fee ELSE 0)
        per_round_fee_rate == IF fee_rate_sum = 0
                              THEN Q(ESTIMATED_FEE_PER_ROTATION, 2 * RateUnit)
                              ELSE Q(fee_rate_sum, RateUnit)
        est_open_fee == QMul(open_notional, per_round_fee_rate)
        fees_sum == QAdd(QInt(live.fees[1]), QInt(live.fees[2]))
        total_fees_paid == IF fees_sum.num = 0 THEN est_open_fee ELSE fees_sum
        close_fee_est == IF total_fees_paid.num > 0 THEN total_fees_paid ELSE est_open_fee
        total_costs == QAdd(QAdd(total_fees_paid, close_fee_est), REBALANCE_FIXED_COST_USDC)
        pos_long == IF both THEN live.pos[1] ELSE None
        pos_short == IF both THEN live.pos[2] ELSE None
        log_px_long == ParseFixed(trade.Long_Price, 6)
        log_px_short == ParseFixed(trade.Short_Price, 6)
        vwap_long == IF both /\ live.fills[1] # 0 THEN QInt(live.fills[1]) ELSE log_px_long
        vwap_short == IF both /\ live.fills[2] # 0 THEN QInt(live.fills[2]) ELSE log_px_short
        entry_px_long == PosOr(pos_long, "entry_price", vwap_long)
        entry_px_short == PosOr(pos_short, "entry_price", vwap_short)
        qty_long == PosOr(pos_long, "quantity", ParseFixed(trade.Long_Qty, 6))
        qty_short == PosOr(pos_short, "quantity", ParseFixed(trade.Short_Qty, 6))
        curr_px_long == IF both THEN PosOr(pos_long, "mark_price", QInt(sym_data[ex_long_name].mark_price))
                        ELSE QInt(0)
        curr_px_short == IF both THEN PosOr(pos_short, "mark_price", QInt(sym_data[ex_short_name].mark_price))
                         ELSE QInt(0)
        used_api == pos_long # None \/ pos_short # None
        price_pnl_api == QAdd(IF pos_long # None THEN QInt(pos_long.unrealized_pnl) ELSE QInt(0),
                              IF pos_short # None THEN QInt(pos_short.unrealized_pnl) ELSE QInt(0))
        price_pnl_calc == QAdd(QMul(QSub(curr_px_long, entry_px_long), qty_long),
                               QMul(QSub(entry_px_short, curr_px_short), qty_short))
        price_pnl == IF ~both THEN QInt(0) ELSE IF used_api THEN price_pnl_api ELSE price_pnl_calc
        long_known == both /\ entry_px_long.num > 0 /\ qty_long.num > 0 /\ curr_px_long.num > 0
        short_known == both /\ entry_px_short.num > 0 /\ qty_short.num > 0 /\ curr_px_short.num > 0
        long_ret_pct == IF long_known THEN LegReturnPct(entry_px_long, curr_px_long, TRUE) ELSE None
        short_ret_pct == IF short_known THEN LegReturnPct(entry_px_short, curr_px_short, FALSE) ELSE None
        drawdown_hit == /\ long_known /\ short_known
                        /\ ENABLE_TRADING
                        /\ AUTO_CLOSE_SIDE_DD_PCT > 0
                        /\ QLeq(QMin(long_ret_pct, short_ret_pct), QInt(-AUTO_CLOSE_SIDE_DD_PCT))
        close_px_long == Q(_price_with_slippage(live.books[1].bid, "SELL"), PxScale)
        close_px_short == Q(_price_with_slippage(live.books[2].ask, "BUY"), PxScale)
        price_pnl_slip == IF close_px_long.num > 0 /\ close_px_short.num > 0
                          THEN QAdd(QMul(QSub(close_px_long, entry_px_long), qty_long),
                                    QMul(QSub(entry_px_short, close_px_short), qty_short))
                          ELSE price_pnl
        net_pnl == QSub(QAdd(net_funding, price_pnl_slip), total_costs)
        balances == live.bal[1] + live.bal[2]
        total_equity == IF balances > 0 THEN QInt(balances)
                        ELSE IF open_notional.num # 0 THEN open_notional ELSE QInt(1)
        ret_pct == QMul(QDiv(net_pnl, total_equity), QInt(100))
        auto_close_hit == /\ ENABLE_TRADING
                          /\ AUTO_CLOSE_RET_PCT > 0
                          /\ QLeq(QInt(AUTO_CLOSE_RET_PCT), ret_pct)
    IN  [net_pnl |-> net_pnl, total_equity |-> total_equity, ret_pct |-> ret_pct,
         long_ret_pct |-> long_ret_pct, short_ret_pct |-> short_ret_pct,
         auto_close_hit |-> auto_close_hit, drawdown_hit |-> drawdown_hit,
         priced |-> both, used_api |-> both /\ used_api,
         log_px_long |-> log_px_long, log_px_short |-> log_px_short,
         entry_px_long |-> entry_px_long, entry_px_short |-> entry_px_short]

\* ------------------------------------------------ inputs of a poll iteration
PollSymbols == {"RESOLV", "BTC"}

\* What one adapter's get_all_funding_rates answers, in its order: nothing
\* (the fetch failed or the venue lists nothing), or one or two symbols.
Listings == {<<>>, <<"BTC">>, <<"BTC", "RESOLV">>}

\* The FundingRate objects of a cycle.  BTC is off the watchlist: with the
\* hot rate it passes every filter of analyze, with the cold one it does not.
\* marks holds the RESOLV mark prices of the long and the short exchange.
Quotes(btc_rate, marks) ==
    [name \in LoadedExchanges |->
        [symbol \in PollSymbols |->
            IF name = "Hyperliquid"
            THEN FundingRate(IF symbol = "BTC" THEN btc_rate ELSE 0, 1,
                             IF symbol = "BTC" THEN 1001 ELSE marks[2],
                             600000, HYPERLIQUID_TAKER_FEE, TRUE)
            ELSE FundingRate(0, 8,
                             IF symbol = "BTC" THEN 1000 ELSE marks[1],
                             600000, 0, TRUE)]]

BtcRates == {80000, 0}
MarkPairs == {<<100, 100>>, <<85, 100>>, <<85, 0>>}

\* A position as get_open_positions reports it.
Position(quantity, entry_price, mark_price, unrealized_pnl) ==
    [quantity |-> quantity, entry_price |-> entry_price,
     mark_price |-> mark_price, unrealized_pnl |-> unrealized_pnl]

\* The answers of the two adapters to the live PnL block: funding and fees
\* since the open, positions, fill prices, books and balances, long leg first.
CalmAnswers ==
    [fund : {<<0, 0>>, <<60, 0>>},
     fees : {<<0, 0>>, <<1, 1>>},
     pos : {<<None, None>>, <<Position(1, 100, 0, -2), Position(1, 100, 100, 1)>>},
     fills : {<<0, 0>>, <<120, 0>>},
     books : {<<[bid |-> 100, ask |-> 100], [bid |-> 100, ask |-> 100]>>,
              <<[bid |-> 0, ask |-> 0], [bid |-> 100, ask |-> 100]>>},
     bal : {<<100, 100>>, <<0, 0>>, <<200, 200>>},
     raises : {"none"}]

\* The same, or a get_funding_history that raises.
LiveAnswers ==
    CalmAnswers
    \cup {[fund |-> <<0, 0>>, fees |-> <<0, 0>>, pos |-> <<None, None>>, fills |-> <<0, 0>>,
           books |-> <<[bid |-> 100, ask |-> 100], [bid |-> 100, ask |-> 100]>>,
           bal |-> <<100, 100>>, raises |-> "get_funding_history"]}

\* Where an iteration can be cut short: an adapter call that raises while
\* the rates are fetched, while positions and balances are read, or a
\* notifier that raises after the live PnL block; a KeyboardInterrupt.
Faults == {"none", "fetch", "positions", "alert", "interrupt"}

\* The ledger lines open_spread and close_spread leave for a spread of one
\* unit at price 100 on each leg.
PollRow(symbol, action) ==
    DataLine(1, symbol, action,
             "Lighter", 100 * PxScale, Frac(1, 1), [status |-> "ok"],
             "Hyperliquid", 100 * PxScale, Frac(1, 1), [status |-> "ok"])

PollLedgers ==
    {<<>>,
     <<HeaderLine, PollRow("RESOLV", "OPEN")>>,
     <<HeaderLine, PollRow("BTC", "OPEN")>>,
     <<HeaderLine, PollRow("BTC", "OPEN"), PollRow("RESOLV", "OPEN")>>,
     <<HeaderLine, PollRow("RESOLV", "OPEN"), PollRow("RESOLV", "CLOSE")>>}

\* The symbols whose latest ledger line is OPEN.
OpenSymbols == {s \in PollSymbols : get_last_open_trade(fileExists, ledger, s) # None}

\* WATCHLIST = ["RESOLV"]: the loop over the watchlist has one pass.
WatchSymbol == CHOOSE s \in WATCHLIST : TRUE

\* ------------------------------------------------------ one poll iteration
\* What the iteration leaves in `cycle`.
Cycle(listing, fault, outcome, evaluated, live, verdict, closed) ==
    [entered |-> pc, listing |-> listing, fault |-> fault, outcome |-> outcome,
     open_before |-> OpenSymbols, evaluated |-> evaluated,
     live |-> live, verdict |-> verdict, closed |-> closed,
     lines |-> Len(ledger), orders |-> Len(placed)]

\* The body of `while True: try:` up to the sleep.
PollBody ==
    /\ pc \in {"run", "retry"}
    /\ \E listing \in [LoadedExchanges -> Listings], btc_rate \in BtcRates, fault \in Faults :
        LET trade == get_last_open_trade(fileExists, ledger, WatchSymbol)
            watching == trade # None
        IN
        \E marks \in IF watching THEN MarkPairs ELSE {<<100, 100>>} :
         LET market == GatherMarket(listing, Quotes(btc_rate, marks))
             found == analyze(market)
             adapters == trade.Long_Exchange \in LoadedExchanges /\ trade.Short_Exchange \in LoadedExchanges
             reached == found # <<>> /\ fault \notin {"fetch", "interrupt", "positions"}
                        /\ watching /\ adapters
         IN
         \E live \in IF reached THEN LiveAnswers ELSE {None} :
          LET verdict == IF reached /\ live.raises = "none"
                         THEN LivePnl(trade, SymData(market, WatchSymbol), live)
                         ELSE None
              closing == verdict # None /\ (verdict.auto_close_hit \/ verdict.drawdown_hit)
              crashed == \/ fault = "fetch"
                         \/ found # <<>> /\ fault \in {"positions", "alert"}
              outcome == IF fault = "interrupt" THEN "exit"
                         ELSE IF crashed THEN "backoff" ELSE "sleep"
              book_ok == closing /\ BookOk(live.books[1], live.books[2], FALSE)
          IN
          /\ market_data' = IF fault \in {"fetch", "interrupt"} THEN <<>> ELSE market
          /\ signals' = IF fault \in {"fetch", "interrupt"} THEN None ELSE [returned |-> found]
          /\ pc' = outcome
          /\ cycle' = Cycle(listing, fault, outcome,
                            IF reached THEN {WatchSymbol} ELSE {},
                            live, verdict,
                            IF closing THEN {WatchSymbol} ELSE {})
          /\ IF closing
             THEN /\ \E res_long \in IF book_ok THEN PlaceResults(trade.Long_Exchange) ELSE {None},
                        res_short \in IF book_ok THEN PlaceResults(trade.Short_Exchange) ELSE {None} :
                       Apply(close_spread(WatchSymbol,
                                          ParseFixed(trade.Long_Qty, 6), ParseFixed(trade.Short_Qty, 6),
                                          trade.Long_Exchange, trade.Short_Exchange,
                                          live.books[1], live.books[2], res_long, res_short))
                  /\ call' = [op |-> "close_spread", symbol |-> WatchSymbol,
                              qty_long |-> ParseFixed(trade.Long_Qty, 6),
                              qty_short |-> ParseFixed(trade.Short_Qty, 6),
                              exchange_long |-> trade.Long_Exchange,
                              exchange_short |-> trade.Short_Exchange,
                              book_long |-> live.books[1], book_short |-> live.books[2],
                              lines |-> Len(ledger), orders |-> Len(placed)]
             ELSE UNCHANGED <<fileExists, ledger, placed, call, ret>>
          /\ UNCHANGED <<now, slipVars, cfgVars, feedVars>>

\* time.sleep(POLL_INTERVAL) returns and the loop starts over with an empty
\* market_data.
WakeUp ==
    /\ pc = "sleep"
    /\ pc' = "run"
    /\ cycle' = None
    /\ market_data' = <<>>
    /\ signals' = None
    /\ UNCHANGED <<execVars, slipVars, cfgVars, feedVars>>

\* A handler that gives up instead of sleeping on.
BackoffDone_givesUp ==
    /\ pc = "backoff"
    /\ pc' = "exit"
    /\ UNCHANGED <<execVars, slipVars, scanVars, cfgVars, feedVars, cycle>>

\* time.sleep(10) of `except Exception` returns and the loop starts over.
BackoffDone ==
    /\ pc = "backoff"
    /\ pc' = "retry"
    /\ cycle' = None
    /\ market_data' = <<>>
    /\ signals' = None
    /\ UNCHANGED <<execVars, slipVars, cfgVars, feedVars>>

\* A KeyboardInterrupt during either sleep ends the process, and with it
\* what the iteration held in memory.
InterruptSleep ==
    /\ pc \in {"sleep", "backoff"}
    /\ pc' = "exit"
    /\ cycle' = None
    /\ market_data' = <<>>
    /\ signals' = None
    /\ UNCHANGED <<execVars, slipVars, cfgVars, feedVars>>

PollInit ==
    /\ ledger \in PollLedgers
    /\ fileExists = (ledger # <<>>)
    /\ now = 1
    /\ placed = <<>>
    /\ call = [op |-> "none"]
    /\ ret = None
    /\ slipIn = None
    /\ slipOut = None
    /\ market_data = <<>>
    /\ signals = None
    /\ thresholds = None
    /\ pc = "run"
    /\ cycle = None
    /\ venue = None
    /\ produced = None

PollNext == PollBody \/ WakeUp \/ BackoffDone \/ InterruptSleep

SpecPoll == PollInit /\ [][PollNext]_vars

\* The loop started with no open position of the watchlist in the ledger, so
\* that no iteration enters the live PnL block.
PollQuietInit ==
    /\ PollInit
    /\ get_last_open_trade(fileExists, ledger, WatchSymbol) = None

\* The loop is one thread: a sleep that is not interrupted returns, and the
\* body runs to its end (every adapter call has a timeout).  Interrupts are
\* under no obligation to happen.
SpecPollFair ==
    /\ PollQuietInit
    /\ [][PollNext]_vars
    /\ WF_vars(PollBody)
    /\ WF_vars(WakeUp)
    /\ WF_vars(BackoffDone)

\* ------------------------------------------- the manual close script alone
\* The ledger lines of a spread of five units, long on Asterdex and short on
\* Hyperliquid.
ManualRow(symbol, action) ==
    DataLine(1, symbol, action,
             "Asterdex", 2 * PxScale, Frac(5, 1), [status |-> "ok"],
             "Hyperliquid", 2 * PxScale, Frac(5, 1), [status |-> "ok"])

ManualLedgers ==
    {<<>>,
     <<HeaderLine, ManualRow("BTC", "OPEN")>>,
     <<HeaderLine, ManualRow("ETH", "OPEN"), ManualRow("BTC", "OPEN")>>,
     <<HeaderLine, ManualRow("BTC", "OPEN"), ManualRow("BTC", "CLOSE")>>}

\* A position as close_order.py holds it (exchange added to the adapter's
\* dictionary).
Listed(exchange, symbol, side, quantity) ==
    [exchange |-> exchange, symbol |-> symbol, side |-> side, quantity |-> Frac(quantity, 1)]

\* What get_open_positions of Asterdex and of Hyperliquid can list.
AsterdexListings ==
    {<<>>, <<Listed("Asterdex", "BTC", "LONG", 5)>>, <<Listed("Asterdex", "ETH", "LONG", 0)>>}

HyperliquidListings ==
    {<<>>, <<Listed("Hyperliquid", "BTC", "SHORT", 5)>>,
     <<Listed("Hyperliquid", "ETH", "SHORT", 5), Listed("Hyperliquid", "BTC", "SHORT", 5)>>}

\* The symbols whose latest ledger line is OPEN.
ManualOpenSymbols == {s \in Symbols : get_last_open_trade(fileExists, ledger, s) # None}

\* The script may be run again until the ledger holds this many data lines.
MaxManualRows == 4

\* One run of close_order.py: the positions of Asterdex, then those of
\* Hyperliquid, each closed and logged in turn; no position, no action.
ManualRun ==
    \E aster \in AsterdexListings, hyper \in HyperliquidListings :
      LET positions == aster \o hyper
      IN  IF positions = <<>>
          THEN UNCHANGED vars
          ELSE /\ DataRows(ledger) + Len(positions) <= MaxManualRows
               /\ \E books \in [1..Len(positions) -> UNION {Books(e) : e \in {"Asterdex", "Hyperliquid"}}],
                     results \in [1..Len(positions) -> UNION {PlaceResults(e) : e \in {"Asterdex", "Hyperliquid"}}] :
                    /\ \A i \in 1..Len(positions) :
                          /\ books[i] \in Books(positions[i].exchange)
                          /\ results[i] \in PlaceResults(positions[i].exchange)
                    /\ LET run == manual_run(Outcome(fileExists, ledger, placed, None), now,
                                             positions, books, results, 1)
                       IN  /\ Apply(run.state)
                           /\ call' = [op |-> "close_order", positions |-> positions,
                                       open_at_start |-> ManualOpenSymbols,
                                       lookups |-> run.lookups,
                                       lines |-> Len(ledger), orders |-> Len(placed)]
               /\ UNCHANGED <<now, slipVars, scanVars, cfgVars, pollVars, feedVars>>

ManualInit ==
    /\ ledger \in ManualLedgers
    /\ fileExists = (ledger # <<>>)
    /\ now = 2
    /\ placed = <<>>
    /\ call = [op |-> "none"]
    /\ ret = None
    /\ slipIn = None
    /\ slipOut = None
    /\ market_data = None
    /\ signals = None
    /\ thresholds = None
    /\ pc = "off"
    /\ cycle = None
    /\ venue = None
    /\ produced = None

ManualNext == ManualRun

SpecManual == ManualInit /\ [][ManualNext]_vars

\* ================================================================ claims
\* The symbols asked about: the traded ones and one the ledger never holds.
AskedSymbols == Symbols \cup {"SOL"}

\* The positions of the data lines of ledger that carry symbol.
LinesOf(symbol) ==
    {i \in 1..Len(ledger) : ledger[i].kind = "data" /\ ledger[i].Symbol = symbol}

\* C1: get_last_open_trade(symbol) is the most recent ledger line of the
\* symbol when that line's Action is exactly OPEN, and None otherwise: when
\* the file is missing, when no line carries the symbol, or when the most
\* recent line of the symbol is a CLOSE or CLOSE_MANUAL_* line.  Lines of
\* other symbols do not change the answer.
C1_LastOpenTrade ==
    \A symbol \in AskedSymbols :
        LET got == get_last_open_trade(fileExists, ledger, symbol)
            own == LinesOf(symbol)
        IN  IF ~fileExists \/ own = {}
            THEN got = None
            ELSE LET last == CHOOSE i \in own : \A j \in own : j <= i
                 IN  IF ledger[last].Action = "OPEN"
                     THEN got = ledger[last]
                     ELSE got = None

\* An OPEN line of BTC followed by a line of another symbol is still the
\* answer for BTC.
C1_Witness ==
    /\ Len(ledger) = 3
    /\ ledger[2].Symbol = "BTC" /\ ledger[2].Action = "OPEN"
    /\ ledger[3].Symbol = "ETH"
    /\ get_last_open_trade(fileExists, ledger, "BTC") = ledger[2]

\* The latest call was open_spread and the price it buys at on the long leg
\* or sells at on the short leg was not positive.
OpenPriceOff(c) ==
    c.op = "open_spread" /\ (c.book_long.ask <= 0 \/ c.book_short.bid <= 0)

\* The latest call was open_spread and some side of either book was not positive.
OpenAnySideOff(c) ==
    /\ c.op = "open_spread"
    /\ \/ c.book_long.bid <= 0 \/ c.book_long.ask <= 0
       \/ c.book_short.bid <= 0 \/ c.book_short.ask <= 0

\* C2 (amended): an open_spread call that reads a long-leg ask <= 0 or a
\* short-leg bid <= 0 returns an error result, sends no order to either
\* exchange and leaves the ledger file as it was; the other side of each
\* book (long-leg bid, short-leg ask) is not looked at.
C2_InvalidBookAborts ==
    [][/\ OpenPriceOff(call') =>
            /\ IsError(ret')
            /\ placed' = placed /\ ledger' = ledger /\ fileExists' = fileExists
       /\ (call'.op = "open_spread" /\ IsError(ret')) => OpenPriceOff(call')]_vars

\* An aborted open_spread on a ledger that already holds lines.
C2_Witness ==
    /\ OpenPriceOff(call)
    /\ IsError(ret)
    /\ Len(ledger) >= 2 /\ Len(ledger) = call.lines
    /\ Len(placed) >= 2 /\ Len(placed) = call.orders

\* C2 as stated: a non-positive bid or ask on either leg makes open_spread
\* return an error, send no order and append no line.
C2_AnySideAborts ==
    [][OpenAnySideOff(call') =>
            /\ IsError(ret')
            /\ placed' = placed /\ ledger' = ledger /\ fileExists' = fileExists]_vars

\* The latest call was open_spread and it passed the book-price check.
OpenPassed(c) == c.op = "open_spread" /\ ~OpenPriceOff(c)

\* C3: an open_spread call with valid books sends exactly two orders, the
\* BUY of the long leg first and the SELL of the short leg second; the short
\* order is sent whatever the long order's result was, nothing is sent after
\* them (no cancel, no compensation), and the returned value carries the two
\* place_order results as they came.
C3_LongThenShortAlways ==
    OpenPassed(call) =>
        /\ Len(placed) = call.orders + 2
        /\ LET first  == placed[call.orders + 1]
               second == placed[call.orders + 2]
           IN  /\ first.exchange = call.exchange_long
               /\ first.order.side = "BUY" /\ first.order.symbol = call.symbol
               /\ second.exchange = call.exchange_short
               /\ second.order.side = "SELL" /\ second.order.symbol = call.symbol
               /\ ret = [long |-> first.result, short |-> second.result]

\* The long order was refused and the short order went out all the same.
C3_Witness ==
    /\ OpenPassed(call)
    /\ Len(placed) = call.orders + 2
    /\ IsError(placed[call.orders + 1].result)
    /\ placed[call.orders + 2].order.side = "SELL"
    /\ placed[call.orders + 2].result.status = "ok"
    /\ IsError(ret.long) /\ ret.short.status = "ok"

\* C4: an open_spread call that passes the book-price check appends exactly
\* one data line (after the header when the file is new); the line has Action
\* OPEN and the call's symbol, and holds for each leg the exchange name, the
\* limit price and the quantity of the order that was sent (as six-decimal
\* texts) and the status of its result, whatever the two results are.
C4_OneOpenRow ==
    OpenPassed(call) =>
        /\ Len(ledger) = IF call.lines = 0 THEN 2 ELSE call.lines + 1
        /\ Len(placed) = call.orders + 2
        /\ LET row    == ledger[Len(ledger)]
               first  == placed[call.orders + 1]
               second == placed[call.orders + 2]
           IN  /\ row.kind = "data"
               /\ row.Action = "OPEN" /\ row.Symbol = call.symbol
               /\ row.Long_Exchange = first.exchange
               /\ row.Long_Price = FormatFixed(Frac(first.order.price, PxScale), 6)
               /\ row.Long_Qty = FormatFixed(first.order.quantity, 6)
               /\ row.Long_Status = StatusOf(first.result)
               /\ row.Short_Exchange = second.exchange
               /\ row.Short_Price = FormatFixed(Frac(second.order.price, PxScale), 6)
               /\ row.Short_Qty = FormatFixed(second.order.quantity, 6)
               /\ row.Short_Status = StatusOf(second.result)
               /\ first.order.price = _price_with_slippage(call.book_long.ask, "BUY")
               /\ second.order.price = _price_with_slippage(call.book_short.bid, "SELL")

\* An OPEN line written after both legs were refused, on a ledger that
\* already held a line.
C4_Witness ==
    /\ OpenPassed(call)
    /\ call.lines >= 2 /\ Len(ledger) = call.lines + 1
    /\ ledger[Len(ledger)].Action = "OPEN"
    /\ ledger[Len(ledger)].Long_Status = "error"
    /\ ledger[Len(ledger)].Short_Status = "error"
    /\ ledger[Len(ledger)].Long_Price = 3004500
    /\ ledger[Len(ledger)].Short_Price = 1997000

\* The file is absent and empty, or starts with its only header line.
LedgerWellFormed ==
    IF ~fileExists THEN ledger = <<>>
    ELSE /\ Len(ledger) >= 2
         /\ ledger[1].kind = "header"
         /\ \A i \in 2..Len(ledger) : ledger[i].kind = "data"

\* C5: whatever open_spread, close_spread and the manual close write, the
\* ledger file has exactly one header line, it is the first line, every
\* later line is a data line, and a step only appends: the lines written
\* before stay where they were, unchanged.
C5_HeaderOnceAppendOnly ==
    /\ []LedgerWellFormed
    /\ [][/\ Len(ledger') >= Len(ledger)
           /\ SubSeq(ledger', 1, Len(ledger)) = ledger]_vars

\* A ledger written by two different writers.
C5_Witness ==
    /\ Len(ledger) = 3
    /\ ledger[1].kind = "header"
    /\ ledger[2].Action = "OPEN"
    /\ ledger[3].Action = "CLOSE_MANUAL_Hyperliquid"

\* C6: for a reference price p > 0 the BUY price is p * (1 + slip) > p and
\* the SELL price is p * (1 - slip) < p, with slip = SLIPPAGE_BPS / 10000;
\* for p <= 0 both are 0.  The side is compared in upper case.
C6_SlippageBuffer ==
    slipOut # None =>
        LET p == slipIn.ref_price
        IN  IF p > 0
            THEN /\ slipOut["BUY"] > p * PxScale
                 /\ (p * PxScale * SLIPPAGE_BPS) % BpsDenominator = 0
                 /\ slipOut["BUY"] = p * PxScale + (p * PxScale * SLIPPAGE_BPS) \div BpsDenominator
                 /\ slipOut["SELL"] < p * PxScale
                 /\ slipOut["SELL"] = p * PxScale - (p * PxScale * SLIPPAGE_BPS) \div BpsDenominator
                 /\ slipOut["buy"] = slipOut["BUY"] /\ slipOut["sell"] = slipOut["SELL"]
            ELSE \A side \in Sides : slipOut[side] = 0

\* A price of 2 is bought at 2.003 and sold at 1.997.
C6_Witness ==
    /\ slipOut # None
    /\ slipIn.ref_price = 2
    /\ slipOut["BUY"] = 20030 /\ slipOut["SELL"] = 19970

\* ------------------------------------------------------- strategy claims
Emitted == signals.returned

\* The two records analyze was given for an emitted symbol.
RatesOf(symbol) ==
    (market_data[CHOOSE i \in 1..Len(market_data) : market_data[i].symbol = symbol]).rates

CostOf(symbol) ==
    FeePerRotation(RatesOf(symbol)[ex_a_name], RatesOf(symbol)[ex_b_name]) + slippage_cost

\* The values fee_per_rotation takes on the inputs.
FeeValues == {ESTIMATED_FEE_PER_ROTATION} \cup {(fee[1] + fee[2]) * 2 : fee \in ScanFees}

\* C7 (amended): every emitted signal has break_even_rounds = 999 when
\* diff_round <= 0, and otherwise the least number of rounds whose spread
\* covers fee_per_rotation + slippage_cost (the ceiling of their quotient),
\* which may itself be 999; for a fixed diff_round > 0 it does not decrease
\* when fee_per_rotation grows.
C7_BreakEvenRounds ==
    signals # None =>
        \A i \in 1..Len(Emitted) :
            LET s == Emitted[i]
                cost == CostOf(s.symbol)
            IN  /\ s.spread <= 0 => s.break_even_rounds = 999
                /\ s.spread > 0 =>
                      /\ s.break_even_rounds * s.spread >= cost
                      /\ (s.break_even_rounds - 1) * s.spread < cost
                      /\ s.break_even_rounds = BreakEvenRounds(s.spread, cost - slippage_cost)
                      /\ \A lower \in FeeValues, higher \in FeeValues :
                            lower <= higher =>
                                BreakEvenRounds(s.spread, lower) <= BreakEvenRounds(s.spread, higher)

\* A positive spread of 0.00000801 against a cost of 0.008 needs 999 rounds.
C7_Witness ==
    /\ signals # None
    /\ \E i \in 1..Len(Emitted) :
          /\ Emitted[i].spread = 801
          /\ CostOf(Emitted[i].symbol) = 800000
          /\ Emitted[i].break_even_rounds = 999

\* C7 as stated: break_even_rounds is 999 if and only if diff_round <= 0.
C7_SentinelIff ==
    signals # None =>
        \A i \in 1..Len(Emitted) :
            (Emitted[i].break_even_rounds = 999) <=> (Emitted[i].spread <= 0)

\* C8: in every emitted signal the exchange whose rate per round
\* (rate * round_hours / interval) is the higher one is exchange_short, the
\* other configured exchange is exchange_long, and the label is
\* LONG_<exchange_long>_SHORT_<exchange_short> with the names in upper case.
C8_HigherRateIsShort ==
    signals # None =>
        \A i \in 1..Len(Emitted) :
            LET s == Emitted[i]
                a == RatesOf(s.symbol)[ex_a_name]
                b == RatesOf(s.symbol)[ex_b_name]
                \* rate_a * rh / interval_a > rate_b * rh / interval_b
                aHigher == a.rate * IntervalOf(b) > b.rate * IntervalOf(a)
                bHigher == b.rate * IntervalOf(a) > a.rate * IntervalOf(b)
            IN  /\ {s.exchange_long, s.exchange_short} = {ex_a_name, ex_b_name}
                /\ s.exchange_long # s.exchange_short
                /\ aHigher => s.exchange_short = ex_a_name
                /\ bHigher => s.exchange_short = ex_b_name
                /\ s.direction = <<"LONG", _direction_key(s.exchange_long),
                                   "SHORT", _direction_key(s.exchange_short)>>

\* The exchange with the lower quoted rate is short, because its rate is paid
\* eight times in the round of the other.
C8_Witness ==
    /\ signals # None
    /\ \E i \in 1..Len(Emitted) :
          /\ Emitted[i].rate_a = 40000 /\ Emitted[i].rate_b = 80000
          /\ Emitted[i].exchange_short = "Hyperliquid"
          /\ Emitted[i].exchange_long = "Lighter"
          /\ Emitted[i].direction = <<"LONG", "LIGHTER", "SHORT", "HYPERLIQUID">>
          /\ ~Emitted[i].is_watchlist

\* The market with the records of the two configured exchanges exchanged.
SwapMarket(market) ==
    [i \in 1..Len(market) |->
        LET rates == market[i].rates
        IN  IF ex_a_name \in DOMAIN rates /\ ex_b_name \in DOMAIN rates
            THEN Entry(market[i].symbol,
                       [ex \in DOMAIN rates |->
                           IF ex = ex_a_name THEN rates[ex_b_name]
                           ELSE IF ex = ex_b_name THEN rates[ex_a_name]
                           ELSE rates[ex]])
            ELSE market[i]]

\* The signals of the two runs that are about the same symbol.
SwapPairs ==
    LET swapped == analyze(SwapMarket(market_data))
    IN  {<<Emitted[i], swapped[j]>> :
            <<i, j>> \in {ij \in (1..Len(Emitted)) \X (1..Len(swapped)) :
                             Emitted[ij[1]].symbol = swapped[ij[2]].symbol}}

\* C9 (amended): exchanging the two exchanges' records of a symbol leaves
\* the spread of its signal unchanged; when the two rates per round differ
\* the long and the short exchange change places, and when they are equal
\* both runs name the same direction (long the second configured exchange).
C9_SwapSymmetry ==
    signals # None =>
        \A pair \in SwapPairs :
            /\ pair[2].spread = pair[1].spread
            /\ pair[1].spread # 0 =>
                  /\ pair[2].exchange_long = pair[1].exchange_short
                  /\ pair[2].exchange_short = pair[1].exchange_long
                  /\ pair[2].direction # pair[1].direction
            /\ pair[1].spread = 0 =>
                  /\ pair[2].direction = pair[1].direction
                  /\ pair[1].exchange_long = ex_b_name

\* A symbol off the watchlist that is emitted before and after the exchange,
\* with the legs reversed.
C9_Witness ==
    /\ signals # None
    /\ \E pair \in SwapPairs :
          /\ ~pair[1].is_watchlist
          /\ pair[1].spread > 0
          /\ pair[1].exchange_long = "Lighter" /\ pair[2].exchange_long = "Hyperliquid"

\* C9 as stated: the exchange always reverses the legs.
C9_SwapAlwaysFlips ==
    signals # None =>
        \A pair \in SwapPairs :
            /\ pair[2].spread = pair[1].spread
            /\ pair[2].exchange_long = pair[1].exchange_short
            /\ pair[2].exchange_short = pair[1].exchange_long

\* 0.0008 per 1h on the first exchange against 0.0004 per 8h on the second,
\* taker fee 0.00045 on each (fee_per_rotation 0.0018).
IsC10Example(rates) ==
    /\ DOMAIN rates = {ex_a_name, ex_b_name}
    /\ rates[ex_a_name].rate = 80000 /\ rates[ex_a_name].funding_interval_hours = 1
    /\ rates[ex_b_name].rate = 40000 /\ rates[ex_b_name].funding_interval_hours = 8
    /\ rates[ex_a_name].taker_fee = 45000 /\ rates[ex_b_name].taker_fee = 45000
    /\ rates[ex_a_name].mark_price = 1001 /\ rates[ex_b_name].mark_price = 1000
    /\ rates[ex_a_name].volume_24h = 600000 /\ rates[ex_b_name].volume_24h = 600000
    /\ rates[ex_a_name].is_active /\ rates[ex_b_name].is_active

\* C10 (amended): a symbol off the watchlist is emitted only if its spread
\* over MAX_BREAK_EVEN_ROUNDS rounds exceeds fee_per_rotation + slippage_cost;
\* the sign of net_per_round = diff_round - fee_per_rotation - slippage_cost
\* excludes nothing.  The symbol with 0.0004 per 8h against 0.0008 per 1h,
\* fee_per_rotation 0.0018 and slippage_cost 0.006 is emitted, with
\* net_per_round -0.0018, when it passes the volume, activity, projection and
\* price-edge filters.
C10_HorizonNotRoundNet ==
    signals # None =>
        /\ \A i \in 1..Len(Emitted) :
              LET s == Emitted[i]
              IN  /\ s.spread_net = s.spread - CostOf(s.symbol)
                  /\ ~s.is_watchlist => s.spread * MAX_BREAK_EVEN_ROUNDS > CostOf(s.symbol)
        /\ \A k \in 1..Len(market_data) :
              IsC10Example(market_data[k].rates) =>
                  \E i \in 1..Len(Emitted) :
                      /\ Emitted[i].symbol = market_data[k].symbol
                      /\ Emitted[i].spread = 600000
                      /\ Emitted[i].spread_net = -180000

\* The example symbol, off the watchlist, is in the output.
C10_Witness ==
    /\ signals # None
    /\ \E k \in 1..Len(market_data) :
          /\ market_data[k].symbol = "BTC"
          /\ IsC10Example(market_data[k].rates)
    /\ \E i \in 1..Len(Emitted) :
          /\ Emitted[i].symbol = "BTC" /\ ~Emitted[i].is_watchlist
          /\ Emitted[i].spread_net = -180000

\* C10 as stated: no emitted symbol off the watchlist has a negative
\* net_per_round.
C10_NegativeNetExcluded ==
    signals # None =>
        \A i \in 1..Len(Emitted) :
            ~Emitted[i].is_watchlist => Emitted[i].spread_net >= 0

\* ------------------------------------------------------------------ C11
\* The entry is a symbol of the watchlist with a FundingRate from both
\* configured exchanges.
WatchedWithBoth(entry) ==
    /\ entry.symbol \in WATCHLIST
    /\ ex_a_name \in DOMAIN entry.rates
    /\ ex_b_name \in DOMAIN entry.rates

\* C11: every watchlisted symbol that has a FundingRate for both configured
\* exchanges is in the output of analyze with is_watchlist set, whatever its
\* activity flags, volumes, spread, projections, break-even horizon and price
\* edge are.
C11_WatchlistAlwaysEmitted ==
    signals # None =>
        \A k \in 1..Len(market_data) :
            WatchedWithBoth(market_data[k]) =>
                \E i \in 1..Len(Emitted) :
                    /\ Emitted[i].symbol = market_data[k].symbol
                    /\ Emitted[i].is_watchlist

\* A watchlisted symbol that is inactive on both exchanges, without volume,
\* without a usable price, with no spread and a negative projection, is in
\* the output.
C11_Witness ==
    /\ signals # None
    /\ \E k \in 1..Len(market_data) :
          LET e == market_data[k]
          IN  /\ WatchedWithBoth(e)
              /\ ~e.rates[ex_a_name].is_active /\ ~e.rates[ex_b_name].is_active
              /\ e.rates[ex_a_name].volume_24h = 0 /\ e.rates[ex_b_name].volume_24h = 0
              /\ e.rates[ex_a_name].mark_price = 0
              /\ \E i \in 1..Len(Emitted) :
                    /\ Emitted[i].symbol = e.symbol
                    /\ Emitted[i].is_watchlist
                    /\ Emitted[i].spread = 0
                    /\ Emitted[i].projected_monthly_return.num < 0
                    /\ Emitted[i].break_even_rounds = 999

\* ------------------------------------------------------------------ C12
\* The three projections of the (single) entry of the market, recomputed from
\* its rates.
EntryProjection(entry, hours) ==
    LET ex_a == entry.rates[ex_a_name]
        ex_b == entry.rates[ex_b_name]
        round_hours == Max(IntervalOf(ex_a), IntervalOf(ex_b))
        diff_round == Abs(_rate_per_round(ex_a.rate, IntervalOf(ex_a), round_hours)
                          - _rate_per_round(ex_b.rate, IntervalOf(ex_b), round_hours))
    IN  Projection(diff_round, round_hours, FeePerRotation(ex_a, ex_b) + slippage_cost, hours)

\* C12 as stated: for every configured value of the minimums, each of the
\* 24h, 7d and 30d projections of every emitted signal off the watchlist is
\* at least its configured minimum (MIN_*_FUNDING_PCT / 100).
C12_ProjectionsAtLeastMinimums ==
    signals # None =>
        \A i \in 1..Len(Emitted) :
            ~Emitted[i].is_watchlist =>
                LET e == market_data[1]
                IN  /\ ~BelowMinimum(EntryProjection(e, 24), thresholds.min_24h_funding_pct)
                    /\ ~BelowMinimum(EntryProjection(e, 24 * 7), thresholds.min_7d_funding_pct)
                    /\ ~BelowMinimum(EntryProjection(e, 24 * 30), thresholds.min_30d_funding_pct)

\* ------------------------------------------------------------------ C13
\* The fee_per_rotation that went into a signal: spread - spread_net is
\* fee_per_rotation + slippage_cost.
FeeUsed(s) == s.spread - s.spread_net - slippage_cost

\* C13 as stated: fee_per_rotation is (takerFeeA + takerFeeB) * 2 only when
\* both taker fees are known (non-zero), and the configured
\* ESTIMATED_FEE_PER_ROTATION / 100 whenever at least one of them is unknown.
C13_FallbackUnlessBothKnown ==
    signals # None =>
        \A i \in 1..Len(Emitted) :
            LET s == Emitted[i]
                fee_a == RatesOf(s.symbol)[ex_a_name].taker_fee
                fee_b == RatesOf(s.symbol)[ex_b_name].taker_fee
            IN  FeeUsed(s) = IF fee_a # 0 /\ fee_b # 0
                             THEN (fee_a + fee_b) * 2
                             ELSE ESTIMATED_FEE_PER_ROTATION

\* ------------------------------------------------------------------ C14
\* Where analyze met the symbol while iterating over its input.
InputPosition(symbol) == CHOOSE k \in 1..Len(market_data) : market_data[k].symbol = symbol

\* The 30-day projection of a signal, over the common denominator 2.
Key30d(s) == s.projected_monthly_return.num

\* C14: the returned list is ordered by 30-day projection, largest first, and
\* signals with equal projections keep the order in which analyze met them in
\* its input.
C14_SortedStable ==
    signals # None =>
        \A i \in 1..Len(Emitted) : \A j \in 1..Len(Emitted) :
            i < j =>
                /\ Emitted[i].projected_monthly_return.den = Emitted[j].projected_monthly_return.den
                /\ Key30d(Emitted[i]) >= Key30d(Emitted[j])
                /\ Key30d(Emitted[i]) = Key30d(Emitted[j]) =>
                       InputPosition(Emitted[i].symbol) < InputPosition(Emitted[j].symbol)

\* Two signals with equal projections came out in input order, the
\* non-watchlisted one first.
C14_Witness ==
    /\ signals # None
    /\ Len(market_data) = 2 /\ Len(Emitted) = 2
    /\ Key30d(Emitted[1]) = Key30d(Emitted[2])
    /\ Key30d(Emitted[1]) > 0
    /\ Emitted[1].symbol = market_data[1].symbol
    /\ Emitted[2].symbol = market_data[2].symbol
    /\ ~Emitted[1].is_watchlist /\ Emitted[2].is_watchlist

\* ------------------------------------------------------------------ C15
\* An adapter answered no rates in the iteration.
SomeAdapterEmpty == \E name \in LoadedExchanges : cycle.listing[name] = <<>>

\* C15: analyze emits a signal for a symbol only if its input holds a
\* FundingRate from both configured exchanges; when an adapter's fetch fails
\* and contributes an empty map, analyze returns an empty list and the poll
\* iteration goes on to its sleep.
C15_BothRatesOrNothing ==
    (cycle # None /\ signals # None) =>
        /\ \A i \in 1..Len(Emitted) :
              /\ ex_a_name \in DOMAIN SymData(market_data, Emitted[i].symbol)
              /\ ex_b_name \in DOMAIN SymData(market_data, Emitted[i].symbol)
        /\ SomeAdapterEmpty =>
              /\ Emitted = <<>>
              /\ cycle.evaluated = {} /\ cycle.closed = {}
              /\ cycle.fault = "none" => (cycle.outcome = "sleep" /\ pc = "sleep")

\* Hyperliquid's fetch failed, Lighter answered two symbols: the market holds
\* both with one record each, nothing is emitted and the loop sleeps.
C15_Witness ==
    /\ cycle # None /\ signals # None
    /\ cycle.listing["Hyperliquid"] = <<>>
    /\ cycle.listing["Lighter"] = <<"BTC", "RESOLV">>
    /\ cycle.fault = "none"
    /\ Len(market_data) = 2
    /\ DOMAIN market_data[1].rates = {"Lighter"}
    /\ Emitted = <<>>
    /\ pc = "sleep"

\* ------------------------------------------------------------------ C16
\* C16 as stated: every FundingRate an adapter produces carries the venue's
\* raw rate for one period of its own funding_interval_hours, with no scaling
\* by the adapter.
C16_RawRatePerOwnInterval ==
    produced # None =>
        /\ produced.rate = venue.funding
        /\ produced.funding_interval_hours = venue.period_hours

\* ------------------------------------------------------------------ C17
\* C17 as stated: in every poll iteration that runs undisturbed, every symbol
\* whose most recent ledger line is OPEN is evaluated by the auto-close
\* evaluator, watchlisted or not, and whether or not analyze returned a
\* signal.
C17_EveryOpenEvaluated ==
    (cycle # None /\ cycle.fault = "none") =>
        cycle.open_before \subseteq cycle.evaluated

\* ------------------------------------------------------------------ C18
\* The percentage return of a leg, where the block could compute one, is at
\* or below the drawdown threshold.
LegInDrawdown(leg_ret) == leg_ret # None /\ QLeq(leg_ret, QInt(-AUTO_CLOSE_SIDE_DD_PCT))

\* C18 as stated: with trading enabled and both thresholds positive,
\* close_spread is called for an evaluated OPEN symbol exactly when its
\* return% (net PnL over total equity) is at least AUTO_CLOSE_RET_PCT or some
\* leg's percentage return is at or below -AUTO_CLOSE_SIDE_DD_PCT.
C18_CloseIffThreshold ==
    (cycle # None /\ cycle.verdict # None) =>
        LET v == cycle.verdict
            symbol == CHOOSE s \in cycle.evaluated : TRUE
        IN  (ENABLE_TRADING /\ AUTO_CLOSE_RET_PCT > 0 /\ AUTO_CLOSE_SIDE_DD_PCT > 0) =>
                (symbol \in cycle.closed <=>
                    \/ QLeq(QInt(AUTO_CLOSE_RET_PCT), v.ret_pct)
                    \/ LegInDrawdown(v.long_ret_pct)
                    \/ LegInDrawdown(v.short_ret_pct))

\* ------------------------------------------------------------------ C19
\* The iteration ended in an exception that is not an interrupt.
IterationRaised == cycle # None /\ cycle.outcome = "backoff"

ClosePassed(c) == c.op = "close_spread" /\ c.book_long.bid > 0 /\ c.book_short.ask > 0

OrderCalls(c) == {i \in 1..Len(c.calls) : c.calls[i].fn = "place_order"}

\* Positions at which the ledger is searched for the OPEN line.
LookupCalls(c) == {i \in 1..Len(c.calls) : c.calls[i].fn = "_find_trade_start_time"}

\* Positions at which a line is appended to the ledger.
LogCalls(c) == {i \in 1..Len(c.calls) : c.calls[i].fn = "_log_trade"}

\* C21 (amended): a close_spread call that passes the book check searches the
\* ledger for the symbol's most recent OPEN line once, after both close orders
\* have been sent and before the CLOSE line is appended; a call that fails the
\* book check does not search the ledger.
C21_LookupAfterOrders ==
    call.op = "close_spread" =>
        IF ClosePassed(call)
        THEN /\ Cardinality(OrderCalls(call)) = 2
             /\ Cardinality(LookupCalls(call)) = 1
             /\ Cardinality(LogCalls(call)) = 1
             /\ \A o \in OrderCalls(call), l \in LookupCalls(call), w \in LogCalls(call) :
                    o < l /\ l < w
             /\ Len(placed) = call.orders + 2
             /\ Len(ledger) = call.lines + 1
        ELSE LookupCalls(call) = {} /\ OrderCalls(call) = {}

\* A close that sent its two orders, then searched the ledger, then wrote.
C21_Witness ==
    /\ ClosePassed(call)
    /\ Len(placed) = call.orders + 2
    /\ call.calls[3].fn = "place_order" /\ call.calls[4].fn = "place_order"
    /\ call.calls[5].fn = "_find_trade_start_time"
    /\ call.calls[Len(call.calls)].fn = "_log_trade"
    /\ placed[call.orders + 2].result.status = "ok"

\* C21 as stated: in a close_spread call that sends orders, the ledger is
\* searched for the symbol's most recent OPEN line before the first order is
\* sent.
C21_LookupBeforeOrders ==
    ClosePassed(call) =>
        \A o \in OrderCalls(call) : \E l \in LookupCalls(call) : l < o

\* ------------------------------------------------------------------ C22
\* get_funding_history calls of the latest close_spread on the given adapter.
HistoryCalls(c, on) == {i \in 1..Len(c.calls) : c.calls[i].fn = "get_funding_history" /\ c.calls[i].on = on}

\* C22: a close_spread call that passes the book check on a ledger holding an
\* OPEN line of the symbol asks both adapters for the funding history from the
\* line's timestamp to the current time and prints the sum.
C22_FundingQueriedAndLogged ==
    (ClosePassed(call) /\ call.funding.printed # "Could not find OPEN time") =>
        /\ HistoryCalls(call, call.exchange_long) # {}
        /\ HistoryCalls(call, call.exchange_short) # {}
        /\ \A i \in 1..Len(call.calls) :
              call.calls[i].fn = "get_funding_history" =>
                  /\ call.calls[i].start_time > 0
                  /\ call.calls[i].now_ms >= call.calls[i].start_time
        /\ call.funding.printed = "Funding Realized"

\* ------------------------------------------------------------------ C23
\* The entry price the stated preference order gives a leg: the VWAP of its
\* fills, else the reported position's entry price, else the ledger's price.
PreferredEntry(fill_vwap, pos, log_px) ==
    IF fill_vwap # 0 THEN QInt(fill_vwap)
    ELSE IF pos # None /\ pos.entry_price # 0 THEN QInt(pos.entry_price)
    ELSE log_px

ClosePriceOff(c) ==
    c.op = "close_spread" /\ (c.book_long.bid <= 0 \/ c.book_short.ask <= 0)

\* The call was close_spread and some side of some book is not positive.
CloseAnySideOff(c) ==
    /\ c.op = "close_spread"
    /\ \/ c.book_long.bid <= 0 \/ c.book_long.ask <= 0
       \/ c.book_short.bid <= 0 \/ c.book_short.ask <= 0

\* C24 (amended): a close_spread call that reads a long-leg bid <= 0 or a
\* short-leg ask <= 0 returns the error result, sends no order, leaves the
\* ledger as it was, and the symbol's latest line is still its OPEN line; the
\* long leg's ask and the short leg's bid are not looked at, and no other
\* close_spread call returns an error result of its own.
C24_InvalidBookAbortsClose ==
    [][/\ ClosePriceOff(call') =>
            /\ ret' = InvalidBook
            /\ placed' = placed /\ ledger' = ledger /\ fileExists' = fileExists
            /\ get_last_open_trade(fileExists', ledger', call'.symbol) # None
       /\ (call'.op = "close_spread" /\ IsError(ret')) => ClosePriceOff(call')]_vars

\* An aborted close: nothing sent, nothing written, the position still OPEN.
C24_Witness ==
    /\ ClosePriceOff(call)
    /\ ret = InvalidBook
    /\ Len(placed) = call.orders /\ Len(placed) >= 2
    /\ Len(ledger) = call.lines
    /\ get_last_open_trade(fileExists, ledger, call.symbol) # None

\* C24 as stated: a non-positive bid or ask on either leg makes close_spread
\* return an error, send no order and append no line.
C24_AnySideAbortsClose ==
    [][CloseAnySideOff(call') =>
            /\ IsError(ret')
            /\ placed' = placed /\ ledger' = ledger /\ fileExists' = fileExists]_vars

\* ------------------------------------------------------------------ C25
\* diff_round of a market entry with both records.
EntrySpread(entry) ==
    LET ex_a == entry.rates[ex_a_name]
        ex_b == entry.rates[ex_b_name]
        round_hours == Max(IntervalOf(ex_a), IntervalOf(ex_b))
    IN  Abs(_rate_per_round(ex_a.rate, IntervalOf(ex_a), round_hours)
            - _rate_per_round(ex_b.rate, IntervalOf(ex_b), round_hours))

\* fee_per_rotation of a market entry with both records.
EntryFee(entry) == FeePerRotation(entry.rates[ex_a_name], entry.rates[ex_b_name])

\* The break-even horizon the signal of the entry would carry.
EntryBreakEven(entry) == BreakEvenRounds(EntrySpread(entry), EntryFee(entry))

\* The entries of the market off the watchlist with both records.
UnwatchedFull ==
    {k \in 1..Len(market_data) :
        /\ market_data[k].symbol \notin WATCHLIST
        /\ ex_a_name \in DOMAIN market_data[k].rates
        /\ ex_b_name \in DOMAIN market_data[k].rates}

\* The filters of analyze that come after the break-even filter.
LaterFilters ==
    {"24h funding too low", "7d funding too low", "30d funding too low",
     "price spread check unavailable", "price edge too small"}

C26_NoOpenAfterOpen ==
    \A symbol \in Symbols :
        \A i \in LinesOf(symbol), j \in LinesOf(symbol) :
            (i < j /\ ledger[i].Action = "OPEN" /\ ledger[j].Action = "OPEN") =>
                \E k \in LinesOf(symbol) : i < k /\ k < j

\* ------------------------------------------------------------------ C27
\* C27: a line get_last_open_trade returns was written by an open_spread call
\* of which at least one order was accepted: its two logged statuses are not
\* both the status of an error result, and while that call is the latest one
\* its returned results are not both error results.
C27_OpenMeansAccepted ==
    \A symbol \in Symbols :
        LET trade == get_last_open_trade(fileExists, ledger, symbol)
        IN  trade # None =>
                /\ trade.Long_Status # "error" \/ trade.Short_Status # "error"
                /\ (OpenPassed(call) /\ call.symbol = symbol) =>
                      ~IsError(ret.long) \/ ~IsError(ret.short)

\* ------------------------------------------------------------------ C28
\* C28: in a run of the manual close script, every processed position whose
\* symbol had an OPEN line as its latest ledger line when the run started is
\* processed with that OPEN line found: get_last_open_trade returns a line
\* and the start time taken from it is positive.
C28_EveryLegFindsOpen ==
    call.op = "close_order" =>
        \A i \in 1..Len(call.lookups) :
            call.lookups[i].symbol \in call.open_at_start =>
                /\ call.lookups[i].trade_open # None
                /\ call.lookups[i].start_time_ms > 0

\* ------------------------------------------------------------------ C29
\* The step is one poll iteration.
IterationStep == pc \in {"run", "retry"} /\ cycle' # None

\* The latest close_spread call aborted on its book prices and nothing has
\* been sent or written since.
LastCloseAborted == call.op = "close_spread" /\ ret = InvalidBook

\* C29: an iteration calls close_spread for the watchlist symbol only when the
\* symbol's latest ledger line is OPEN, so after a CLOSE line no iteration
\* closes it again until an OPEN line is appended; and after a close_spread
\* that aborted on invalid book prices the symbol's latest line is still OPEN
\* and the next iteration that runs undisturbed evaluates it again.
C29_ClosedOnceRetriedAfterAbort ==
    [][IterationStep =>
          /\ WatchSymbol \in cycle'.closed =>
                get_last_open_trade(fileExists, ledger, WatchSymbol) # None
          /\ (LastCloseAborted /\ cycle'.fault = "none") =>
                /\ get_last_open_trade(fileExists, ledger, WatchSymbol) # None
                /\ WatchSymbol \in cycle'.evaluated]_vars

\* ------------------------------------------------------------------ C30
\* C30: both orders of a close_spread call that passed the book check are
\* reduce-only orders.
C30_CloseOrdersReduceOnly ==
    ClosePassed(call) =>
        /\ Len(placed) = call.orders + 2
        /\ placed[call.orders + 1].order.reduce_only
        /\ placed[call.orders + 2].order.reduce_only

====
